---- MODULE Spec2Model ----
(***************************************************************************)
(* Model of the Growatt/Spock coordinator                                  *)
(* (custom_components/spock_ems_growatt/coordinator.py).                   *)
(*                                                                         *)
(* One refresh task = one run of _async_update_data: the telemetry poll    *)
(* (_read_modbus_sync, on a worker thread), the POST to Spock              *)
(* (_send_to_spock), the translation of the reply and, when the signature  *)
(* changed, the control apply (_apply_control_sync, on a worker thread).   *)
(* Every Modbus request is one step of the model, so that two worker       *)
(* threads can be observed between any two register operations.            *)
(*                                                                         *)
(* The inverter is the environment: a holding-register bank that a write   *)
(* request either stores, acknowledges without storing, or refuses, and    *)
(* input registers whose values are drawn at each read.                    *)
(***************************************************************************)
EXTENDS Integers, Sequences, FiniteSets, TLC

VARIABLES
  pc,        \* [Tasks -> label]: where each refresh task is
  mutex,     \* holder of self._modbus_mutex (0 = free)
  connected, \* self.client has an open socket
  hr,        \* the inverter's holding registers
  nominal,   \* self.nominal_power_w (scaled, -1 = None)
  lastSig,   \* self._last_command_signature
  data,      \* [Tasks -> the snapshot returned by the poll, or NoData]
  perr,      \* [Tasks -> registers whose read failed in the running poll]
  post,      \* [Tasks -> how the POST of the running cycle ended]
  resp,      \* [Tasks -> the JSON reply waiting to be translated]
  praw,      \* [Tasks -> raw words read so far by the running poll]
  att,       \* [Tasks -> locals of the running apply attempt]
  wlog,      \* [Tasks -> register writes issued by the running apply attempt]
  result,    \* [Tasks -> what the cycle handed to the entity layer]
  faults,    \* device faults the environment may still inject
  runs,      \* [Tasks -> refreshes the task may still start, -1 = any number]
  call       \* a helper function evaluated on its own: name, arguments, result

vars == <<pc, mutex, connected, hr, nominal, lastSig, data, perr, post, resp, praw,
          att, wlog, result, faults, runs, call>>

----------------------------------------------------------------------------
(* Bounds of the model *)

\* device faults (failed read, refused or unstored write) per behaviour
MaxFaults == 2
\* the same when two refresh tasks run concurrently
MaxFaultsConc == 1
\* the same within the one apply attempt of SpecApply: each of the six
\* restore writes of a rollback may fail
MaxFaultsApply == 6
\* the refreshes that follow the attempt with which SpecRetry begins
RetryCycles == 2

Tasks == {1, 2}

----------------------------------------------------------------------------
(* Program constants *)

_READBACK_RETRIES == 8

_T1_CFG == 3038
_T1_END == 3039
_T2_CFG == 3040
_T3_CFG == 3042
_HR_CHARGE_POWER_RATE == 3047
_HR_GRID_CHARGE_ENABLE == 3049
_HR_DISCHARGE_POWER_RATE == 3036

_ENABLE_BIT == 32768
_MODE_LOAD == 0
_MODE_BAT == 8192

DEFAULT_BATTERY_MAX_W == 9000

HRegs == {_HR_DISCHARGE_POWER_RATE, _T1_CFG, _T1_END, _T2_CFG, _T3_CFG,
          _HR_CHARGE_POWER_RATE, _HR_GRID_CHARGE_ENABLE}


----------------------------------------------------------------------------
(* Values the environment can produce *)

\* holding register 10 (nominal power): in the first band, in the second
\* band, outside both
Nom10Vals == {6000, 60000, 100}
\* input registers 3005/3006 (u32, 0.1 W)
Nom3005Vals == {<<0, 60000>>}
\* input registers 3001/3002 (PV power, u32, 0.1 W)
PvVals == {<<0, 30000>>}
\* input register 3048 (grid power, s16, 0.1 W): -500 as a raw word
GridVals == {65036}
\* input register 3010 (SOC) and 3171 (BMS SOC); a failed read of 3010 is
\* taken as 0
SocVals == {45}
BmsSocVals == {0, 150}
\* input registers 3178/3179 and 3180/3181 (discharge / charge power)
PdisVals == {<<0, 2000>>}
PchVals == {<<0, 0>>}

\* how the POST can end: a JSON body with status 200, a status other than
\* 200, a 200 whose body is not JSON, a body (of any status) whose bytes
\* resp.text() cannot decode in the reply's charset (UnicodeDecodeError), an
\* aiohttp ClientError (DNS failure, connection refused), the total timeout
\* of 10 s (asyncio.TimeoutError)
PostOutcomes == {"json", "non200", "nonjson", "undecodable", "clienterror",
                 "timeout"}

\* fields of the JSON reply. "absent" is a missing key, "null" a JSON null;
\* the other status and operation_mode values are the strings themselves.
StatusVals == {"absent", "null", "", "ok", " OK ", "error"}
ModeVals == {"absent", "null", "charge", "Discharge", "auto", "none", "idle"}
ActionVals ==
  { [k |-> "absent", n |-> 0, d |-> 1],
    [k |-> "null", n |-> 0, d |-> 1],
    [k |-> "int", n |-> 0, d |-> 1],
    [k |-> "int", n |-> 2000, d |-> 1],
    [k |-> "float", n |-> 3999, d |-> 2],      \* 1999.5
    [k |-> "nan", n |-> 0, d |-> 1],           \* the JSON literal NaN
    [k |-> "inf", n |-> 0, d |-> 1],           \* Infinity, -Infinity, 1e999
    [k |-> "strinf", n |-> 0, d |-> 1],        \* "inf", "-Infinity", "1e999"
    [k |-> "str", n |-> 2000, d |-> 1],        \* "2000"
    [k |-> "strword", n |-> 0, d |-> 1],       \* "", "none", "null", "nan"
    [k |-> "strbad", n |-> 0, d |-> 1] }       \* "full"

Int2000 == [k |-> "int", n |-> 2000, d |-> 1]

\* the replies the remote service sends in this model: a charge, a stop, a
\* discharge and an automatic directive, a directive without status, one
\* with status "error", and two whose action is a string and a NaN
Replies ==
  { [status |-> "ok", operation_mode |-> "charge", action |-> Int2000],
    [status |-> "ok", operation_mode |-> "charge",
     action |-> [k |-> "null", n |-> 0, d |-> 1]],
    [status |-> "ok", operation_mode |-> "Discharge", action |-> Int2000],
    [status |-> "ok", operation_mode |-> "auto", action |-> Int2000],
    [status |-> "absent", operation_mode |-> "charge",
     action |-> [k |-> "str", n |-> 2000, d |-> 1]],
    [status |-> "error", operation_mode |-> "charge", action |-> Int2000],
    [status |-> "ok", operation_mode |-> "charge",
     action |-> [k |-> "nan", n |-> 0, d |-> 1]] }

\* every reply the translator is given when it is examined on its own
AllReplies ==
  [status : StatusVals, operation_mode : ModeVals, action : ActionVals]

NoReply == [status |-> "absent", operation_mode |-> "absent",
            action |-> [k |-> "absent", n |-> 0, d |-> 1]]

\* the five input registers of a Battery Snapshot (3118, 3169, 3171,
\* 3178/3179, 3180/3181); a failed read gives 0 as well
BatterySnapshots ==
  [bdc : {0, 1}, vbat_raw : {0, 5120}, soc_raw : {0, 45},
   pdis_raw : {0, 2000}, pch_raw : {0, 1500}]

----------------------------------------------------------------------------
(* Register codec *)

_decode_u32_be(regs) == regs[1] * 65536 + regs[2]

_decode_s16_above(u16) == IF u16 > 32768 THEN u16 - 65536 ELSE u16
_decode_s16(u16) == IF (u16 \div 32768) % 2 = 1 THEN u16 - 65536 ELSE u16

\* Python's round(): to the nearest integer, ties to the even one
\* (n / d with d > 0)
RoundHalfEven(n, d) ==
  LET q == n \div d
      r == n % d
  IN  IF 2 * r < d THEN q
      ELSE IF 2 * r > d THEN q + 1
      ELSE IF q % 2 = 0 THEN q ELSE q + 1

\* math.sqrt(3) to four decimals, as the fraction Sqrt3Num / Sqrt3Den
Sqrt3Num == 17321
Sqrt3Den == 10000

\* The snapshot dictionary built at the end of _read_modbus_sync from the raw
\* words: pv_w = u32 * 0.1, grid_w = -s16 * 0.1 * sqrt(3),
\* bat_w = pch_w - pdis_w, load_w = grid_w + pv_w - bat_w.
Snapshot(pv, grid, soc, pdis, pch) ==
  LET pv10 == _decode_u32_be(pv)
      bat10 == _decode_u32_be(pch) - _decode_u32_be(pdis)
      gridN == (0 - _decode_s16(grid)) * Sqrt3Num
      gridD == 10 * Sqrt3Den
  IN  [ battery_soc_total |-> soc,
        battery_power     |-> RoundHalfEven(bat10, 10),
        pv_power          |-> RoundHalfEven(pv10, 10),
        net_grid_power    |-> RoundHalfEven(gridN, gridD),
        supply_power      |-> RoundHalfEven(gridN + (pv10 - bat10) * Sqrt3Den, gridD) ]

NoData == [ battery_soc_total |-> -1, battery_power |-> 0, pv_power |-> 0,
            net_grid_power |-> 0, supply_power |-> 0 ]

NoRaw == [pv |-> <<0, 0>>, grid |-> 0, soc |-> 0, pdis |-> <<0, 0>>, pdisErr |-> FALSE]

\* what a cycle hands over: the snapshot, or UpdateFailed; "via" names the
\* return statement of _maybe_apply_spock_action the cycle went through
NoResult == [kind |-> "none", data |-> NoData, via |-> "none"]

\* no helper function is being evaluated on its own
NoCall == [f |-> "none", args |-> <<>>, returned |-> FALSE, out |-> 0]

\* self._last_command_signature = None
NoSig == <<"none", 0>>

\* locals of an apply attempt: the Desired Action, the loop index of the
\* running step, the Register Backup (-1 = not read, or None), the words
\* read by _apply_tou_time1_mode_24h, the discharge rate read before the
\* write, the result of the last _readback_until, the two battery checks,
\* the exception being raised, whether _rollback_best_effort has run, and
\* the Last Applied Signature found when the attempt was decided
NoAtt == [ mode |-> "none", w |-> 0, i |-> 0, exc |-> "none",
           backup |-> [r \in HRegs |-> -1],
           t1_cfg0 |-> -1, t1_end0 |-> -1, t2_cfg0 |-> -1, t3_cfg0 |-> -1,
           old |-> -1, ok |-> TRUE, pre |-> "unknown", post |-> "unknown",
           rolled |-> FALSE, last0 |-> NoSig ]

----------------------------------------------------------------------------
(* The inverter's holding registers when the integration starts: the TOU    *)
(* table as shipped, and a table with the three windows in use and          *)
(* grid charging on.                                                        *)

FactoryPreset ==
  [r \in HRegs |->
     CASE r = _T1_CFG -> 9728                    \* 0x2600 off, battery first, 06:00
       [] r = _T1_END -> 2048                    \* 08:00
       [] r = _T2_CFG -> 2560                    \* 0x0A00 off, load first, 10:00
       [] r = _T3_CFG -> 0
       [] r = _HR_CHARGE_POWER_RATE -> 100
       [] r = _HR_GRID_CHARGE_ENABLE -> 0
       [] OTHER -> 100 ]

BusyPreset ==
  [r \in HRegs |->
     CASE r = _T1_CFG -> 49152                   \* 0xC000 on, grid first, 00:00
       [] r = _T1_END -> 1536                    \* 06:00
       [] r = _T2_CFG -> 43520                   \* 0xAA00 on, battery first, 10:00
       [] r = _T3_CFG -> 36864                   \* 0x9000 on, load first, 16:00
       [] r = _HR_CHARGE_POWER_RATE -> 50
       [] r = _HR_GRID_CHARGE_ENABLE -> 1
       [] OTHER -> 56 ]

DevicePresets == {FactoryPreset, BusyPreset}

----------------------------------------------------------------------------
(* Bus session *)

\* a device fault may still be injected
CanFault == faults > 0

\* threading.Lock.acquire: the caller proceeds only when nobody holds it
MutexFreeAlways == TRUE
MutexFree == mutex = 0

\* leaving a "with self._modbus_mutex" block, by return or by exception
ReleaseKeeps(t) == mutex' = mutex
Release(t) == mutex' = IF mutex = t THEN 0 ELSE mutex

InitIdle ==
  /\ mutex = 0
  /\ connected = FALSE
  /\ nominal = -1
  /\ lastSig = NoSig
  /\ data = [t \in Tasks |-> NoData]
  /\ perr = [t \in Tasks |-> {}]
  /\ post = [t \in Tasks |-> "none"]
  /\ resp = [t \in Tasks |-> NoReply]
  /\ praw = [t \in Tasks |-> NoRaw]
  /\ att = [t \in Tasks |-> NoAtt]
  /\ wlog = [t \in Tasks |-> <<>>]
  /\ result = [t \in Tasks |-> NoResult]
  /\ pc = [t \in Tasks |-> "idle"]

InitBase == InitIdle /\ call = NoCall

\* one refresh task: the coordinator's scheduled refresh, again and again
Init ==
  /\ InitBase
  /\ hr \in DevicePresets
  /\ faults = MaxFaults
  /\ runs = [t \in Tasks |-> IF t = 1 THEN -1 ELSE 0]

\* two refreshes that overlap: the scheduled one and a requested one, each
\* with its own worker threads
InitConc ==
  /\ InitBase
  /\ hr = BusyPreset
  /\ faults = MaxFaultsConc
  /\ runs = [t \in Tasks |-> 1]

----------------------------------------------------------------------------
(* _async_update_data, first stage: the telemetry poll on a worker thread *)

Goto(t, l) == pc' = [pc EXCEPT ![t] = l]

\* the except clauses of _async_update_data: the cycle ends as UpdateFailed
CycleFails(t) ==
  /\ Goto(t, "failed")
  /\ result' = [result EXCEPT ![t] =
                  [kind |-> "failed", data |-> NoData, via |-> "none"]]

\* a refresh is due: _async_update_data starts, the poll job is submitted
StartCycle(t) ==
  /\ pc[t] = "idle"
  /\ runs[t] # 0
  /\ runs' = [runs EXCEPT ![t] = IF @ > 0 THEN @ - 1 ELSE @]
  /\ Goto(t, "p_lock")
  /\ UNCHANGED <<mutex, connected, hr, nominal, lastSig, data, perr, post, resp,
                 praw, att, wlog, result, faults>>
  /\ UNCHANGED call

\* with self._modbus_mutex:
PollLock(t) ==
  /\ pc[t] = "p_lock"
  /\ MutexFree
  /\ mutex' = t
  /\ Goto(t, "p_connect")
  /\ UNCHANGED <<connected, hr, nominal, lastSig, data, perr, post, resp, praw,
                 att, wlog, result, faults, runs>>
  /\ UNCHANGED call

\* if not self.client.connect(): raise ConnectionError
PollConnect(t) ==
  /\ pc[t] = "p_connect"
  /\ \E ok \in BOOLEAN :
       /\ connected' = ok
       /\ IF ok
            THEN /\ Goto(t, IF nominal = -1 THEN "p_nom10" ELSE "p_pv")
                 /\ UNCHANGED <<mutex, result>>
            ELSE /\ Release(t)
                 /\ CycleFails(t)
  /\ UNCHANGED <<hr, nominal, lastSig, data, perr, post, resp, praw, att, wlog,
                 faults, runs>>
  /\ UNCHANGED call

\* the band test on holding register 10 (scaled by 10000; -1 = None)
NominalFromHr10(val) ==
  IF 5000 <= val /\ val <= 7000 THEN val * 10
  ELSE IF 50000 <= val /\ val <= 70000 THEN val
  ELSE -1

\* 1. Potencia Nominal: holding register 10
PollNominal10(t) ==
  /\ pc[t] = "p_nom10"
  /\ \/ \E val \in Nom10Vals :
          /\ nominal' = NominalFromHr10(val)
          /\ Goto(t, IF NominalFromHr10(val) = -1 THEN "p_nom3005" ELSE "p_pv")
          /\ UNCHANGED faults
     \/ /\ CanFault
        /\ faults' = faults - 1
        /\ Goto(t, "p_nom3005")
        /\ UNCHANGED nominal
  /\ UNCHANGED <<mutex, connected, hr, lastSig, data, perr, post, resp, praw, att,
                 wlog, result, runs>>
  /\ UNCHANGED call

\* still None: input registers 3005/3006, taken whatever their value
PollNominal3005(t) ==
  /\ pc[t] = "p_nom3005"
  /\ \/ \E regs \in Nom3005Vals :
          /\ nominal' = _decode_u32_be(regs)
          /\ UNCHANGED faults
     \/ /\ CanFault
        /\ faults' = faults - 1
        /\ UNCHANGED nominal
  /\ Goto(t, "p_pv")
  /\ UNCHANGED <<mutex, connected, hr, lastSig, data, perr, post, resp, praw, att,
                 wlog, result, runs>>
  /\ UNCHANGED call

\* a read of the poll came back as an error reply
PollReadError(t, reg) ==
  /\ CanFault
  /\ faults' = faults - 1
  /\ perr' = [perr EXCEPT ![t] = @ \cup {reg}]

\* raise ModbusException inside the with block
PollRaiseGoesOn(t) ==
  /\ Release(t)
  /\ Goto(t, "polled")
  /\ UNCHANGED result

PollRaise(t) ==
  /\ Release(t)
  /\ CycleFails(t)

\* PV Power (3001)
PollPv(t) ==
  /\ pc[t] = "p_pv"
  /\ \/ \E regs \in PvVals :
          /\ praw' = [praw EXCEPT ![t].pv = regs]
          /\ Goto(t, "p_grid")
          /\ UNCHANGED <<mutex, result, faults, perr>>
     \/ /\ PollReadError(t, 3001)
        /\ PollRaise(t)
        /\ UNCHANGED praw
  /\ UNCHANGED <<connected, hr, nominal, lastSig, data, post, resp, att, wlog, runs>>
  /\ UNCHANGED call

\* Grid Power (3048)
PollGrid(t) ==
  /\ pc[t] = "p_grid"
  /\ \/ \E w \in GridVals :
          /\ praw' = [praw EXCEPT ![t].grid = w]
          /\ Goto(t, "p_soc")
          /\ UNCHANGED <<mutex, result, faults, perr>>
     \/ /\ PollReadError(t, 3048)
        /\ PollRaise(t)
        /\ UNCHANGED praw
  /\ UNCHANGED <<connected, hr, nominal, lastSig, data, post, resp, att, wlog, runs>>
  /\ UNCHANGED call

\* what a failed SOC read does to the poll
SocReadFailed(t) ==
  /\ praw' = [praw EXCEPT ![t].soc = 0]
  /\ Goto(t, "p_bms")
  /\ UNCHANGED <<mutex, result>>

\* SOC (3010): soc = registers[0] if not isError() else 0
PollSoc(t) ==
  /\ pc[t] = "p_soc"
  /\ \/ \E w \in SocVals :
          /\ praw' = [praw EXCEPT ![t].soc = w]
          /\ Goto(t, IF w = 0 THEN "p_bms" ELSE "p_pdis")
          /\ UNCHANGED <<mutex, result, faults, perr>>
     \/ /\ PollReadError(t, 3010)
        /\ SocReadFailed(t)
  /\ UNCHANGED <<connected, hr, nominal, lastSig, data, post, resp, att, wlog, runs>>
  /\ UNCHANGED call

\* what a failed BMS SOC read does to the poll
BmsReadFailed(t) ==
  /\ Goto(t, "p_pdis")
  /\ UNCHANGED <<praw, mutex, result>>

\* if soc == 0: BMS SOC (3171), kept only when the read succeeded
PollBms(t) ==
  /\ pc[t] = "p_bms"
  /\ \/ \E w \in BmsSocVals :
          /\ praw' = [praw EXCEPT ![t].soc = w]
          /\ Goto(t, "p_pdis")
          /\ UNCHANGED <<mutex, result, faults, perr>>
     \/ /\ PollReadError(t, 3171)
        /\ BmsReadFailed(t)
  /\ UNCHANGED <<connected, hr, nominal, lastSig, data, post, resp, att, wlog, runs>>
  /\ UNCHANGED call

\* Battery power: 3178 is read, then 3180, and only then the errors are tested
PollPdis(t) ==
  /\ pc[t] = "p_pdis"
  /\ \/ \E regs \in PdisVals :
          /\ praw' = [praw EXCEPT ![t].pdis = regs]
          /\ UNCHANGED <<faults, perr>>
     \/ /\ PollReadError(t, 3178)
        /\ praw' = [praw EXCEPT ![t].pdisErr = TRUE]
  /\ Goto(t, "p_pch")
  /\ UNCHANGED <<mutex, connected, hr, nominal, lastSig, data, post, resp, att,
                 wlog, result, runs>>
  /\ UNCHANGED call

\* 3180, the error test of both reads, and the return of the snapshot
PollPch(t) ==
  /\ pc[t] = "p_pch"
  /\ \/ \E regs \in PchVals :
          /\ UNCHANGED <<faults, perr>>
          /\ IF praw[t].pdisErr
               THEN /\ PollRaise(t)
                    /\ UNCHANGED data
               ELSE /\ data' = [data EXCEPT ![t] =
                          Snapshot(praw[t].pv, praw[t].grid, praw[t].soc,
                                   praw[t].pdis, regs)]
                    /\ Release(t)
                    /\ Goto(t, "polled")
                    /\ UNCHANGED result
     \/ /\ PollReadError(t, 3180)
        /\ PollRaise(t)
        /\ UNCHANGED data
  /\ praw' = [praw EXCEPT ![t] = NoRaw]
  /\ UNCHANGED <<connected, hr, nominal, lastSig, post, resp, att, wlog, runs>>
  /\ UNCHANGED call

----------------------------------------------------------------------------
(* _send_to_spock *)

\* the payload is built from the snapshot and the POST is issued
SendToSpock(t) ==
  /\ pc[t] = "polled"
  /\ Goto(t, "posting")
  /\ perr' = [perr EXCEPT ![t] = {}]
  /\ UNCHANGED <<mutex, connected, hr, nominal, lastSig, data, post, resp,
                 praw, att, wlog, result, faults, runs>>
  /\ UNCHANGED call

\* the exceptions of the POST that "except ClientError" catches
CaughtBySendToSpock(o) == o = "clienterror"

\* the cycle returns the poll's snapshot to the entity layer
CycleReturns(t, via) ==
  /\ Goto(t, "done")
  /\ result' = [result EXCEPT ![t] =
                  [kind |-> "data", data |-> data[t], via |-> via]]

\* the POST ends. Without a JSON body _send_to_spock returns None and
\* _maybe_apply_spock_action returns at once; an exception that
\* _send_to_spock does not catch reaches "except Exception" of
\* _async_update_data.
SpockReply(t) ==
  /\ pc[t] = "posting"
  /\ \E o \in PostOutcomes :
       /\ post' = [post EXCEPT ![t] = o]
       /\ CASE o = "json" ->
                 /\ \E r \in Replies : resp' = [resp EXCEPT ![t] = r]
                 /\ Goto(t, "translate")
                 /\ UNCHANGED result
            [] o \in {"non200", "nonjson"} ->
                 /\ CycleReturns(t, "no_json")
                 /\ UNCHANGED resp
            [] OTHER ->
                 /\ IF CaughtBySendToSpock(o)
                      THEN CycleReturns(t, "no_json")
                      ELSE CycleFails(t)
                 /\ UNCHANGED resp
  /\ UNCHANGED <<mutex, connected, hr, nominal, lastSig, data, perr, praw,
                 att, wlog, faults, runs>>
  /\ UNCHANGED call

----------------------------------------------------------------------------
(* Command translation: _parse_action_w and _maybe_apply_spock_action *)

\* str(spock_response.get("status", "")).strip().lower()
StatusNorm(s) ==
  CASE s = "absent" -> ""
    [] s = "null" -> "none"
    [] s = " OK " -> "ok"
    [] OTHER -> s

\* str(spock_response.get("operation_mode", "none")).strip().lower()
ModeNorm(m) ==
  CASE m \in {"absent", "null"} -> "none"
    [] m = "Discharge" -> "discharge"
    [] OTHER -> m

\* if status and status != "ok": return
StatusAcceptedAlways(s) == TRUE
StatusAccepted(s) == StatusNorm(s) = "" \/ StatusNorm(s) = "ok"

\* _parse_action_w: the watts, or the exception that leaves the function
_parse_action_w(a) ==
  CASE a.k \in {"absent", "null"} -> [raised |-> FALSE, v |-> 0]
    [] a.k \in {"int", "float"} -> [raised |-> FALSE, v |-> RoundHalfEven(a.n, a.d)]
    [] a.k = "nan" -> [raised |-> TRUE, v |-> 0]    \* round(nan): ValueError
    [] a.k \in {"inf", "strinf"} ->                 \* round(inf): OverflowError
         [raised |-> TRUE, v |-> 0]
    [] a.k = "str" -> [raised |-> FALSE, v |-> RoundHalfEven(a.n, a.d)]
    [] OTHER -> [raised |-> FALSE, v |-> 0]

\* the Desired Action of an accepted directive
DesiredAction(operation_mode, action_w) ==
  IF action_w = 0 /\ operation_mode \in {"charge", "discharge"}
    THEN <<"load_first", 0>>
  ELSE IF operation_mode = "charge" THEN <<"charge_grid_batfirst", action_w>>
  ELSE IF operation_mode = "discharge" THEN <<"load_first", action_w>>
  ELSE <<"load_first", 5000>>

\* if self._last_command_signature == signature: return
SameAsLastNever(signature) == FALSE
SameAsLast(signature) == lastSig = signature
\* self._last_command_signature while _apply_control_sync runs: the
\* assignment stands after the await (line 356), so the attempt starts and
\* runs with the signature of the last commit
SignatureWhileApplyingNew(signature) == signature
SignatureWhileApplying(signature) == lastSig

\* _maybe_apply_spock_action up to the submission of _apply_control_sync
Translate(t) ==
  /\ pc[t] = "translate"
  /\ LET r == resp[t]
         p == _parse_action_w(r.action)
         signature == DesiredAction(ModeNorm(r.operation_mode), p.v)
     IN  IF ~StatusAccepted(r.status)
           THEN CycleReturns(t, "status") /\ UNCHANGED <<att, lastSig>>
         ELSE IF p.raised THEN CycleFails(t) /\ UNCHANGED <<att, lastSig>>
         ELSE IF SameAsLast(signature)
           THEN CycleReturns(t, "unchanged") /\ UNCHANGED <<att, lastSig>>
         ELSE /\ att' = [att EXCEPT ![t] = [NoAtt EXCEPT !.mode = signature[1],
                                                        !.w = signature[2],
                                                        !.last0 = lastSig]]
              /\ lastSig' = SignatureWhileApplying(signature)
              /\ Goto(t, "a_lock")
              /\ UNCHANGED result
  /\ resp' = [resp EXCEPT ![t] = NoReply]
  /\ UNCHANGED <<mutex, connected, hr, nominal, data, perr, post,
                 praw, wlog, faults, runs>>
  /\ UNCHANGED call

----------------------------------------------------------------------------
(* Control helpers *)

\* what an apply step leaves alone besides the bus, its locals and its log
ApplyFrame == UNCHANGED <<mutex, connected, nominal, lastSig, data, perr,
                          post, resp, praw, result, runs>>

\* the same for the two steps that take and release the lock
LockFrame == UNCHANGED <<connected, nominal, lastSig, data, perr, post, resp,
                         praw, result, runs>>

\* _battery_online on the snapshot s (pch, pdis are the raw words * 0.1)
_battery_online(s) ==
  IF s.bdc = 0 /\ s.vbat_raw = 0 /\ s.soc_raw = 0 /\ s.pch_raw = 0 /\ s.pdis_raw = 0
    THEN FALSE
    ELSE s.vbat_raw > 0 \/ s.soc_raw > 0

\* int(round((float(watts) / float(base_w)) * 100.0)) for watts, base_w > 0:
\* the quotient is rounded to a double before it is multiplied by 100.0, and
\* round() rounds halves to even. The result is the exact quotient
\* 100 * watts / base_w rounded half to even, except where that quotient is
\* exactly 54.5 or 57.5: the doubles 0.545 * 100.0 and 0.575 * 100.0 are
\* 54.50000000000001 and 57.49999999999999, which round to 55 and to 57.
FloatPct(watts, base_w) ==
  IF 200 * watts = 109 * base_w THEN 55
  ELSE IF 200 * watts = 115 * base_w THEN 57
  ELSE RoundHalfEven(watts * 100, base_w)

_clamp(v, lo, hi) ==
  LET m == IF hi < v THEN hi ELSE v
  IN  IF lo > m THEN lo ELSE m

_watts_to_percent_unclamped(watts, base_w, allow_zero) ==
  IF base_w <= 0 THEN 0
  ELSE IF watts <= 0 THEN (IF allow_zero THEN 0 ELSE 1)
  ELSE FloatPct(watts, base_w)
_watts_to_percent(watts, base_w, allow_zero) ==
  IF base_w <= 0 THEN 0
  ELSE IF watts <= 0 THEN (IF allow_zero THEN 0 ELSE 1)
  ELSE _clamp(FloatPct(watts, base_w), IF allow_zero THEN 0 ELSE 1, 100)

\* self.battery_max_w of an entry that sets no battery_max_w option
battery_max_w == DEFAULT_BATTERY_MAX_W

\* _encode_hm(h, m) for 0 <= h <= 23, 0 <= m <= 59
_encode_hm(h, m) == h * 256 + m

\* cfg & _ENABLE_BIT, for a 16-bit word
EnableBitSet(cfg) == (cfg \div _ENABLE_BIT) % 2 = 1

\* cfg & ~_ENABLE_BIT
ClearEnableBit(cfg) == IF EnableBitSet(cfg) THEN cfg - _ENABLE_BIT ELSE cfg

\* (t1_cfg0 & ~(_MODE_MASK | _TIME_BITS_MASK)) | mode_bits | _ENABLE_BIT | start_bits
\* with start_bits = _encode_hm(0, 0) & _TIME_BITS_MASK = 0: what is kept of
\* t1_cfg0 is its bit 15, which is then set
NewT1CfgKeepsStart(t1_cfg0, mode_bits) ==
  (t1_cfg0 % 8192) + _ENABLE_BIT + mode_bits

NewT1Cfg(t1_cfg0, mode_bits) ==
  (t1_cfg0 \div 65536) * 65536 + _ENABLE_BIT + mode_bits + _encode_hm(0, 0)

NewT1End == _encode_hm(23, 59)

ModeBits(mode) == IF mode = "charge_grid_batfirst" THEN _MODE_BAT ELSE _MODE_LOAD

\* pct = self._watts_to_percent(int(w), self.battery_max_w, allow_zero=...)
\* of _apply_charge_grid_batfirst_w and _apply_load_first_discharge_limit_w
ChargeRatePct(w, base) == _watts_to_percent(w, base, FALSE)
DischargeRatePct(w, base) == _watts_to_percent(w, base, TRUE)

\* the percent a charge / a load_first apply aims at
ChargePct(t) == ChargeRatePct(att[t].w, battery_max_w)
DischargePct(t) == DischargeRatePct(att[t].w, battery_max_w)

\* how the inverter can answer a write request: it stores the words, it
\* acknowledges without storing them, or it answers with an error
WriteOutcomes == IF CanFault THEN {"stored", "ignored", "refused"} ELSE {"stored"}

\* FC16 write of the words kv (register -> word) by attempt t in phase ph
DeviceWrite(t, kv, ph, o) ==
  /\ hr' = IF o = "stored"
             THEN [r \in HRegs |-> IF r \in DOMAIN kv THEN kv[r] ELSE hr[r]]
             ELSE hr
  /\ faults' = IF o = "stored" THEN faults ELSE faults - 1
  /\ wlog' = [wlog EXCEPT ![t] = @ \o
        [k \in 1..Cardinality(DOMAIN kv) |->
           LET r == CHOOSE x \in DOMAIN kv :
                      Cardinality({y \in DOMAIN kv : y < x}) = k - 1
           IN  [ph |-> ph, reg |-> r, val |-> kv[r]]]]

One(reg, val) == [r \in {reg} |-> val]

\* a failed register read (error reply) during an apply attempt
ReadFault ==
  /\ CanFault
  /\ faults' = faults - 1
  /\ UNCHANGED <<hr, wlog>>

\* an exception raised before the try block of _apply_control_sync: the with
\* block is left, the exception reaches _maybe_apply_spock_action
RaiseBeforeTry(t, why) ==
  /\ att' = [att EXCEPT ![t].exc = why, ![t].i = 0]
  /\ Goto(t, "a_exit")

\* an exception raised inside the try block: except Exception runs
\* _rollback_best_effort(backup)
\* (the locals of the function that raised are gone)
Raised(a, why) ==
  [a EXCEPT !.exc = why, !.i = 1, !.ok = TRUE, !.t1_cfg0 = -1, !.t1_end0 = -1,
            !.t2_cfg0 = -1, !.t3_cfg0 = -1, !.old = -1]

RaiseInTryNoRollback(t, why) ==
  /\ att' = [att EXCEPT ![t] = [Raised(att[t], why) EXCEPT !.i = 0]]
  /\ Goto(t, "a_exit")

RaiseInTry(t, why) ==
  /\ att' = [att EXCEPT ![t] = Raised(att[t], why)]
  /\ Goto(t, "rollback")

----------------------------------------------------------------------------
(* _apply_control_sync: CONNECT, BACKUP, PRECHECK *)

\* with self._modbus_mutex:
ApplyLock(t) ==
  /\ pc[t] = "a_lock"
  /\ MutexFree
  /\ mutex' = t
  /\ Goto(t, "a_connect")
  /\ UNCHANGED <<hr, att, wlog, faults>>
  /\ LockFrame
  /\ UNCHANGED call

\* if not self.client.connect(): raise ConnectionError
ApplyConnect(t) ==
  /\ pc[t] = "a_connect"
  /\ \E ok \in BOOLEAN :
       /\ connected' = ok
       /\ IF ok
            THEN /\ att' = [att EXCEPT ![t].i = 1]
                 /\ Goto(t, "a_backup")
            ELSE RaiseBeforeTry(t, "connect")
  /\ UNCHANGED <<mutex, hr, wlog, faults, nominal, lastSig, data, perr, post, resp,
                 praw, result, runs>>
  /\ UNCHANGED call

\* the order in which the backup dictionary is read
BackupOrder == << _HR_GRID_CHARGE_ENABLE, _HR_CHARGE_POWER_RATE, _T1_CFG,
                  _T1_END, _T2_CFG, _T3_CFG, _HR_DISCHARGE_POWER_RATE >>

\* one read of the backup. The first six raise on an error reply; the read
\* of the discharge rate is wrapped in try/except and leaves None.
ApplyBackup(t) ==
  /\ pc[t] = "a_backup"
  /\ LET i == att[t].i
         reg == BackupOrder[i]
         nxt == IF i < Len(BackupOrder) THEN "a_backup" ELSE "a_precheck"
     IN  \/ /\ att' = [att EXCEPT ![t].backup[reg] = hr[reg], ![t].i = i + 1]
            /\ Goto(t, nxt)
            /\ UNCHANGED <<hr, wlog, faults>>
         \/ /\ ReadFault
            /\ IF reg = _HR_DISCHARGE_POWER_RATE
                 THEN /\ att' = [att EXCEPT ![t].backup[reg] = -1, ![t].i = i + 1]
                      /\ Goto(t, nxt)
                 ELSE RaiseBeforeTry(t, "backup")
  /\ ApplyFrame
  /\ UNCHANGED call

\* if not self._battery_online(s0): raise
PrecheckPasses(s) == _battery_online(s)

\* raise RuntimeError("Battery offline BEFORE applying control"): the
\* statement stands before the try block
PrecheckFailsInTry(t) ==
  /\ att' = [att EXCEPT ![t] =
               Raised([att[t] EXCEPT !.pre = "offline"], "offline_before")]
  /\ Goto(t, "rollback")

PrecheckFails(t) ==
  /\ att' = [att EXCEPT ![t].exc = "offline_before", ![t].i = 0,
                        ![t].pre = "offline"]
  /\ Goto(t, "a_exit")

\* s0 = self._battery_snapshot() and the test of it
ApplyPrecheck(t) ==
  /\ pc[t] = "a_precheck"
  /\ \E s \in BatterySnapshots :
       IF PrecheckPasses(s)
         THEN /\ att' = [att EXCEPT ![t].i = 1,
                           ![t].pre = IF _battery_online(s) THEN "online" ELSE "offline"]
              /\ Goto(t, "t_read")
         ELSE PrecheckFails(t)
  /\ UNCHANGED <<hr, wlog, faults>>
  /\ ApplyFrame
  /\ UNCHANGED call

----------------------------------------------------------------------------
(* _readback_until *)

\* the register and the word each read-back waits for
RbReg(l) ==
  CASE l = "t2_rb" -> _T2_CFG
    [] l = "t3_rb" -> _T3_CFG
    [] l = "t1_rb_cfg" -> _T1_CFG
    [] l = "t1_rb_end" -> _T1_END
    [] l = "g_rb" -> _HR_GRID_CHARGE_ENABLE
    [] l = "c_rb" -> _HR_CHARGE_POWER_RATE
    [] OTHER -> _HR_DISCHARGE_POWER_RATE      \* "d_rb", "d_undo_rb"

RbExpected(t, l) ==
  CASE l = "t2_rb" -> ClearEnableBit(att[t].t2_cfg0)
    [] l = "t3_rb" -> ClearEnableBit(att[t].t3_cfg0)
    [] l = "t1_rb_cfg" -> NewT1Cfg(att[t].t1_cfg0, ModeBits(att[t].mode))
    [] l = "t1_rb_end" -> NewT1End
    [] l = "g_rb" -> IF att[t].mode = "charge_grid_batfirst" THEN 1 ELSE 0
    [] l = "c_rb" -> ChargePct(t)
    [] l = "d_rb" -> DischargePct(t)
    [] OTHER -> att[t].old                    \* "d_undo_rb"

RbLabels == {"t2_rb", "t3_rb", "t1_rb_cfg", "t1_rb_end", "g_rb", "c_rb",
             "d_rb", "d_undo_rb"}

\* where _apply_tou_time1_mode_24h goes after the four reads / after window 2
AfterTouReads(t2_cfg0, t3_cfg0) ==
  IF EnableBitSet(t2_cfg0) THEN "t2_write"
  ELSE IF EnableBitSet(t3_cfg0) THEN "t3_write" ELSE "t1_write"

AfterT2(t3_cfg0) == IF EnableBitSet(t3_cfg0) THEN "t3_write" ELSE "t1_write"

\* the statement that follows a read-back which returned ok
RbNextLenient(t, l, ok) ==
  CASE l = "t2_rb" -> AfterT2(att[t].t3_cfg0)
    [] l = "t3_rb" -> "t1_write"
    [] l = "t1_rb_cfg" -> "t1_rb_end"
    [] l = "t1_rb_end" ->
         IF att[t].mode = "charge_grid_batfirst" THEN "g_write" ELSE "d_read"
    [] l = "g_rb" ->
         IF att[t].mode = "charge_grid_batfirst" THEN "c_write" ELSE "a_postcheck"
    [] l = "c_rb" -> "a_postcheck"
    [] l = "d_rb" -> "g_write"
    [] OTHER -> "raise"
RbNext(t, l, ok) ==
  CASE l = "t2_rb" -> AfterT2(att[t].t3_cfg0)
    [] l = "t3_rb" -> "t1_write"
    [] l = "t1_rb_cfg" -> "t1_rb_end"
    [] l = "t1_rb_end" ->
         IF att[t].mode = "charge_grid_batfirst" THEN "g_write" ELSE "d_read"
    [] l = "g_rb" ->
         IF att[t].mode = "charge_grid_batfirst" THEN "c_write" ELSE "a_postcheck"
    [] l = "c_rb" -> "a_postcheck"
    [] l = "d_rb" -> IF ok THEN "g_write" ELSE "d_undo_write"
    [] OTHER -> "raise"                       \* "d_undo_rb"

\* for _ in range(_READBACK_RETRIES): after read number i another follows
MoreReadsOneExtra(i) == i <= _READBACK_RETRIES
MoreReads(i) == i < _READBACK_RETRIES

\* for _ in range(_READBACK_RETRIES): last = _hr_read_u16(reg) ...
\* one iteration: the read raises, or returns the word the register holds
ReadbackStep(t) ==
  /\ pc[t] \in RbLabels
  /\ LET l == pc[t]
         i == att[t].i
         done(ok) ==
           IF RbNext(t, l, ok) = "raise"
             THEN RaiseInTry(t, "readback_failed")
             ELSE /\ att' = [att EXCEPT ![t].ok = ok, ![t].i = 1]
                  /\ Goto(t, RbNext(t, l, ok))
     IN  \/ /\ ReadFault
            /\ RaiseInTry(t, "read_error")
         \/ /\ UNCHANGED <<hr, wlog, faults>>
            /\ IF hr[RbReg(l)] = RbExpected(t, l) THEN done(TRUE)
               ELSE IF MoreReads(i)
                 THEN /\ att' = [att EXCEPT ![t].i = i + 1]
                      /\ UNCHANGED pc
                 ELSE done(FALSE)
  /\ ApplyFrame
  /\ UNCHANGED call

\* the device side of the retry loop (time.sleep(_READBACK_SLEEP_S) between
\* the reads): an inverter that acknowledged a write without storing it
\* stores it while the read-back of that register is going on, or right
\* after the read-back of the discharge rate gave up
LateStore(t) ==
  /\ pc[t] \in RbLabels \cup {"d_undo_write"}
  /\ \E k \in 1..Len(wlog[t]) :
       /\ wlog[t][k].reg = RbReg(pc[t])
       /\ \A m \in (k + 1)..Len(wlog[t]) : wlog[t][m].reg # RbReg(pc[t])
       /\ hr[RbReg(pc[t])] # wlog[t][k].val
       /\ hr' = [hr EXCEPT ![RbReg(pc[t])] = wlog[t][k].val]
  /\ UNCHANGED <<pc, att, wlog, faults>>
  /\ ApplyFrame
  /\ UNCHANGED call

----------------------------------------------------------------------------
(* _apply_tou_time1_mode_24h *)

TouReadOrder == << _T1_CFG, _T1_END, _T2_CFG, _T3_CFG >>

\* t1_cfg0, t1_end0, t2_cfg0, t3_cfg0 = four _hr_read_u16
TouRead(t) ==
  /\ pc[t] = "t_read"
  /\ LET i == att[t].i
         v == hr[TouReadOrder[i]]
         a == CASE i = 1 -> [att[t] EXCEPT !.t1_cfg0 = v, !.i = 2]
                [] i = 2 -> [att[t] EXCEPT !.t1_end0 = v, !.i = 3]
                [] i = 3 -> [att[t] EXCEPT !.t2_cfg0 = v, !.i = 4]
                [] OTHER -> [att[t] EXCEPT !.t3_cfg0 = v, !.i = 1]
     IN  \/ /\ att' = [att EXCEPT ![t] = a]
            /\ Goto(t, IF i < 4 THEN "t_read" ELSE AfterTouReads(a.t2_cfg0, a.t3_cfg0))
            /\ UNCHANGED <<hr, wlog, faults>>
         \/ /\ ReadFault
            /\ RaiseInTry(t, "read_error")
  /\ ApplyFrame
  /\ UNCHANGED call

\* a write of the apply step: refused raises RuntimeError, otherwise the
\* read-back l follows (after time.sleep)
ApplyWrite(t, kv, ph, l) ==
  \E o \in WriteOutcomes :
    /\ DeviceWrite(t, kv, ph, o)
    /\ IF o = "refused"
         THEN RaiseInTry(t, "write_error")
         ELSE /\ att' = [att EXCEPT ![t].i = 1]
              /\ Goto(t, l)

\* if t2_cfg0 & _ENABLE_BIT: write t2_cfg0 & ~_ENABLE_BIT
TouDisableT2(t) ==
  /\ pc[t] = "t2_write"
  /\ ApplyWrite(t, One(_T2_CFG, ClearEnableBit(att[t].t2_cfg0)), "apply", "t2_rb")
  /\ ApplyFrame
  /\ UNCHANGED call

\* if t3_cfg0 & _ENABLE_BIT: write t3_cfg0 & ~_ENABLE_BIT
TouDisableT3(t) ==
  /\ pc[t] = "t3_write"
  /\ ApplyWrite(t, One(_T3_CFG, ClearEnableBit(att[t].t3_cfg0)), "apply", "t3_rb")
  /\ ApplyFrame
  /\ UNCHANGED call

\* self._hr_write_pair_fc16(_T1_CFG, new_t1_cfg, new_t1_end)
TouForceT1(t) ==
  /\ pc[t] = "t1_write"
  /\ ApplyWrite(t, [r \in {_T1_CFG, _T1_END} |->
                     IF r = _T1_CFG
                       THEN NewT1Cfg(att[t].t1_cfg0, ModeBits(att[t].mode))
                       ELSE NewT1End],
                "apply", "t1_rb_cfg")
  /\ ApplyFrame
  /\ UNCHANGED call

----------------------------------------------------------------------------
(* _apply_charge_grid_batfirst_w and _apply_load_first_discharge_limit_w *)

\* HR3049 := 1 (charge) or 0 (load first)
GridChargeWrite(t) ==
  /\ pc[t] = "g_write"
  /\ ApplyWrite(t, One(_HR_GRID_CHARGE_ENABLE,
                       IF att[t].mode = "charge_grid_batfirst" THEN 1 ELSE 0),
                "apply", "g_rb")
  /\ ApplyFrame
  /\ UNCHANGED call

\* HR3047 := pct
ChargeRateWrite(t) ==
  /\ pc[t] = "c_write"
  /\ ApplyWrite(t, One(_HR_CHARGE_POWER_RATE, ChargePct(t)), "apply", "c_rb")
  /\ ApplyFrame
  /\ UNCHANGED call

\* if old != pct: the discharge rate is written only when it changes
DischargeChangedAlways(old, pct) == TRUE
DischargeChanged(old, pct) == old # pct

\* old = self._hr_read_u16(_HR_DISCHARGE_POWER_RATE); if old != pct: ...
DischargeRead(t) ==
  /\ pc[t] = "d_read"
  /\ \/ /\ att' = [att EXCEPT ![t].old = hr[_HR_DISCHARGE_POWER_RATE]]
        /\ Goto(t, IF DischargeChanged(hr[_HR_DISCHARGE_POWER_RATE],
                                       DischargePct(t))
                     THEN "d_write" ELSE "g_write")
        /\ UNCHANGED <<hr, wlog, faults>>
     \/ /\ ReadFault
        /\ RaiseInTry(t, "read_error")
  /\ ApplyFrame
  /\ UNCHANGED call

\* HR3036 := pct
DischargeWrite(t) ==
  /\ pc[t] = "d_write"
  /\ ApplyWrite(t, One(_HR_DISCHARGE_POWER_RATE, DischargePct(t)), "apply", "d_rb")
  /\ ApplyFrame
  /\ UNCHANGED call

\* self._hr_write_u16_fc16(_HR_DISCHARGE_POWER_RATE, old): the word of the
\* undo write is the one read before the write of the target
UndoWordTarget(t) == DischargePct(t)
UndoWord(t) == att[t].old

\* if not ok: HR3036 := old, read back, raise RuntimeError
DischargeUndoWrite(t) ==
  /\ pc[t] = "d_undo_write"
  /\ ApplyWrite(t, One(_HR_DISCHARGE_POWER_RATE, UndoWord(t)), "undo", "d_undo_rb")
  /\ ApplyFrame
  /\ UNCHANGED call

----------------------------------------------------------------------------
(* _apply_control_sync: POSTCHECK, ROLLBACK; COMMIT in the caller *)

\* if not self._battery_online(s_after): raise
PostcheckPassesAlways(s) == TRUE
PostcheckPasses(s) == _battery_online(s)

\* s_after = self._battery_snapshot() and the test of it
ApplyPostcheck(t) ==
  /\ pc[t] = "a_postcheck"
  /\ \E s \in BatterySnapshots :
       IF PostcheckPasses(s)
         THEN /\ att' = [att EXCEPT ![t].i = 0,
                           ![t].post = IF _battery_online(s) THEN "online" ELSE "offline"]
              /\ Goto(t, "a_exit")
         ELSE /\ att' = [att EXCEPT ![t] =
                          Raised([att[t] EXCEPT !.post = "offline"], "offline_after")]
              /\ Goto(t, "rollback")
  /\ UNCHANGED <<hr, wlog, faults>>
  /\ ApplyFrame
  /\ UNCHANGED call

\* the restore writes of _rollback_best_effort, in program order
RollbackWritesNoT3(b) ==
  << One(_HR_GRID_CHARGE_ENABLE, b[_HR_GRID_CHARGE_ENABLE]),
     One(_HR_CHARGE_POWER_RATE, b[_HR_CHARGE_POWER_RATE]),
     [r \in {_T1_CFG, _T1_END} |-> b[r]],
     One(_T2_CFG, b[_T2_CFG]) >>

RollbackWrites(b) ==
  << One(_HR_GRID_CHARGE_ENABLE, b[_HR_GRID_CHARGE_ENABLE]),
     One(_HR_CHARGE_POWER_RATE, b[_HR_CHARGE_POWER_RATE]),
     [r \in {_T1_CFG, _T1_END} |-> b[r]],
     One(_T2_CFG, b[_T2_CFG]),
     One(_T3_CFG, b[_T3_CFG]) >>
  \o (IF b[_HR_DISCHARGE_POWER_RATE] # -1
        THEN << One(_HR_DISCHARGE_POWER_RATE, b[_HR_DISCHARGE_POWER_RATE]) >>
        ELSE << >>)

\* each restore write stands in a try block of its own whose handler is
\* "except Exception: pass": after outcome o of the write the function goes
\* on with its next statement
RestoreGoesOnUnlessRefused(o) == o # "refused"
RestoreGoesOn(o) == TRUE

\* one restore write inside its own try/except: whatever the outcome, the
\* next one follows; after the last, "raise" re-raises the apply error
RollbackStep(t) ==
  /\ pc[t] = "rollback"
  /\ LET ws == RollbackWrites(att[t].backup)
         i == att[t].i
     IN  \E o \in WriteOutcomes :
           /\ DeviceWrite(t, ws[i], "rollback", o)
           /\ IF i < Len(ws) /\ RestoreGoesOn(o)
                THEN /\ att' = [att EXCEPT ![t].i = i + 1]
                     /\ UNCHANGED pc
                ELSE /\ att' = [att EXCEPT ![t].i = 0, ![t].rolled = TRUE]
                     /\ Goto(t, "a_exit")
  /\ ApplyFrame
  /\ UNCHANGED call

\* what outlives _apply_control_sync: after a return the signature that the
\* caller commits; after a raise the exception; and, for the record, the
\* two battery checks, whether rollback ran and the signature found before
Outcome(a) ==
  IF a.exc = "none"
    THEN [NoAtt EXCEPT !.mode = a.mode, !.w = a.w, !.pre = a.pre,
                       !.post = a.post, !.last0 = a.last0]
    ELSE [NoAtt EXCEPT !.exc = a.exc, !.pre = a.pre, !.post = a.post,
                       !.rolled = a.rolled, !.last0 = a.last0]

\* how _apply_control_sync ends: "raise" re-raises the error after the
\* rollback, and an error before the try block propagates as it is
ExitLabelSwallow(a) == "a_ret"
ExitLabel(a) == IF a.exc = "none" THEN "a_ret" ELSE "a_err"

\* the with block is left, by return or by the exception in flight: the
\* lock is released and the worker thread hands over to the event loop
ApplyExit(t) ==
  /\ pc[t] = "a_exit"
  /\ Release(t)
  /\ att' = [att EXCEPT ![t] = Outcome(att[t])]
  /\ wlog' = [wlog EXCEPT ![t] = <<>>]
  /\ Goto(t, ExitLabel(att[t]))
  /\ UNCHANGED <<hr, faults>>
  /\ LockFrame
  /\ UNCHANGED call

\* how the cycle goes on when _apply_control_sync raised:
\* except Exception as err: _LOGGER.error(...)
AfterApplyErrorFails(t) == CycleFails(t)
AfterApplyError(t) == CycleReturns(t, "apply_failed")

\* _apply_control_sync returned: self._last_command_signature = signature
Commit(t) ==
  /\ pc[t] = "a_ret"
  /\ lastSig' = <<att[t].mode, att[t].w>>
  /\ CycleReturns(t, "applied")
  /\ UNCHANGED <<mutex, connected, hr, nominal, data, perr, post, resp, praw,
                 att, wlog, faults, runs>>
  /\ UNCHANGED call

\* _apply_control_sync raised
ApplyErrorCaught(t) ==
  /\ pc[t] = "a_err"
  /\ AfterApplyError(t)
  /\ UNCHANGED <<mutex, connected, hr, nominal, lastSig, data, perr, post,
                 resp, praw, att, wlog, faults, runs>>
  /\ UNCHANGED call

\* the coordinator hands the result over and waits for the next refresh
CycleEnd(t) ==
  /\ pc[t] \in {"done", "failed"}
  /\ Goto(t, "idle")
  /\ data' = [data EXCEPT ![t] = NoData]
  /\ perr' = [perr EXCEPT ![t] = {}]
  /\ post' = [post EXCEPT ![t] = "none"]
  /\ att' = [att EXCEPT ![t] = NoAtt]
  /\ result' = [result EXCEPT ![t] = NoResult]
  /\ UNCHANGED <<mutex, connected, hr, nominal, lastSig, resp, praw, wlog,
                 faults, runs>>
  /\ UNCHANGED call

----------------------------------------------------------------------------

Next ==
  \E t \in Tasks :
    \/ StartCycle(t)
    \/ PollLock(t)
    \/ PollConnect(t)
    \/ PollNominal10(t)
    \/ PollNominal3005(t)
    \/ PollPv(t)
    \/ PollGrid(t)
    \/ PollSoc(t)
    \/ PollBms(t)
    \/ PollPdis(t)
    \/ PollPch(t)
    \/ SendToSpock(t)
    \/ SpockReply(t)
    \/ Translate(t)
    \/ ApplyLock(t)
    \/ ApplyConnect(t)
    \/ ApplyBackup(t)
    \/ ApplyPrecheck(t)
    \/ TouRead(t)
    \/ TouDisableT2(t)
    \/ TouDisableT3(t)
    \/ TouForceT1(t)
    \/ ReadbackStep(t)
    \/ GridChargeWrite(t)
    \/ ChargeRateWrite(t)
    \/ DischargeRead(t)
    \/ DischargeWrite(t)
    \/ DischargeUndoWrite(t)
    \/ ApplyPostcheck(t)
    \/ RollbackStep(t)
    \/ ApplyExit(t)
    \/ Commit(t)
    \/ ApplyErrorCaught(t)
    \/ CycleEnd(t)

Spec == Init /\ [][Next]_vars

SpecConc == InitConc /\ [][Next]_vars

\* EVENT_HOMEASSISTANT_STOP (_async_handle_shutdown) or the unloading of the
\* entry (async_unload_entry): coordinator.client.close() is called on the
\* event loop, without taking the bus lock, and no further refresh starts
Shutdown ==
  /\ connected \/ \E t \in Tasks : runs[t] # 0
  /\ connected' = FALSE
  /\ runs' = [t \in Tasks |-> 0]
  /\ UNCHANGED <<pc, mutex, hr, nominal, lastSig, data, perr, post, resp, praw,
                 att, wlog, result, faults, call>>

\* one refresh, during which the process may be stopped
InitStop ==
  /\ InitBase
  /\ hr = BusyPreset
  /\ faults = MaxFaultsConc
  /\ runs = [t \in Tasks |-> IF t = 1 THEN 1 ELSE 0]

NextStop == Next \/ Shutdown

SpecStop == InitStop /\ [][NextStop]_vars

\* the translator on its own: the poll and the POST of a cycle succeeded and
\* any reply waits in _maybe_apply_spock_action
InitTr ==
  /\ mutex = 0
  /\ connected = TRUE
  /\ hr = FactoryPreset
  /\ nominal = 60000
  /\ lastSig \in {NoSig, <<"load_first", 5000>>}
  /\ data = [t \in Tasks |->
               IF t = 1
                 THEN Snapshot(<<0, 30000>>, 65036, 45, <<0, 2000>>, <<0, 0>>)
                 ELSE NoData]
  /\ perr = [t \in Tasks |-> {}]
  /\ post = [t \in Tasks |-> IF t = 1 THEN "json" ELSE "none"]
  /\ \E r \in AllReplies :
        resp = [t \in Tasks |-> IF t = 1 THEN r ELSE NoReply]
  /\ praw = [t \in Tasks |-> NoRaw]
  /\ att = [t \in Tasks |-> NoAtt]
  /\ wlog = [t \in Tasks |-> <<>>]
  /\ result = [t \in Tasks |-> NoResult]
  /\ pc = [t \in Tasks |-> IF t = 1 THEN "translate" ELSE "idle"]
  /\ faults = 0
  /\ runs = [t \in Tasks |-> 0]
  /\ call = NoCall

NextTr == \E t \in Tasks : Translate(t)

SpecTr == InitTr /\ [][NextTr]_vars

\* one apply attempt on its own: a cycle whose poll and POST succeeded and
\* whose reply asked for a new action stands before _apply_control_sync,
\* on an inverter that may fail any of the requests of the attempt and may
\* store a write late
InitApply ==
  /\ mutex = 0
  /\ connected = TRUE
  /\ hr \in DevicePresets
  /\ nominal = 60000
  /\ lastSig = NoSig
  /\ data = [t \in Tasks |->
               IF t = 1
                 THEN Snapshot(<<0, 30000>>, 65036, 45, <<0, 2000>>, <<0, 0>>)
                 ELSE NoData]
  /\ perr = [t \in Tasks |-> {}]
  /\ post = [t \in Tasks |-> IF t = 1 THEN "json" ELSE "none"]
  /\ resp = [t \in Tasks |-> NoReply]
  /\ praw = [t \in Tasks |-> NoRaw]
  /\ \E s \in {<<"charge_grid_batfirst", 2000>>, <<"load_first", 5000>>} :
        att = [t \in Tasks |->
                 IF t = 1
                   THEN [NoAtt EXCEPT !.mode = s[1], !.w = s[2], !.last0 = NoSig]
                   ELSE NoAtt]
  /\ wlog = [t \in Tasks |-> <<>>]
  /\ result = [t \in Tasks |-> NoResult]
  /\ pc = [t \in Tasks |-> IF t = 1 THEN "a_lock" ELSE "idle"]
  /\ faults = MaxFaultsApply
  /\ runs = [t \in Tasks |-> 0]
  /\ call = NoCall

NextApply ==
  \E t \in Tasks :
    \/ LateStore(t)
    \/ ApplyLock(t)
    \/ ApplyConnect(t)
    \/ ApplyBackup(t)
    \/ ApplyPrecheck(t)
    \/ TouRead(t)
    \/ TouDisableT2(t)
    \/ TouDisableT3(t)
    \/ TouForceT1(t)
    \/ ReadbackStep(t)
    \/ GridChargeWrite(t)
    \/ ChargeRateWrite(t)
    \/ DischargeRead(t)
    \/ DischargeWrite(t)
    \/ DischargeUndoWrite(t)
    \/ ApplyPostcheck(t)
    \/ RollbackStep(t)
    \/ ApplyExit(t)
    \/ Commit(t)
    \/ ApplyErrorCaught(t)
    \/ CycleEnd(t)

SpecApply == InitApply /\ [][NextApply]_vars

\* the cycles that follow an apply attempt: a cycle whose poll and POST
\* succeeded stands before _apply_control_sync with the directive
\* (charge_grid_batfirst, 2000), nothing committed so far and the nominal
\* power cached; RetryCycles further refreshes follow
InitRetry ==
  /\ mutex = 0
  /\ connected = TRUE
  /\ hr = BusyPreset
  /\ nominal = 60000
  /\ lastSig = NoSig
  /\ data = [t \in Tasks |->
               IF t = 1
                 THEN Snapshot(<<0, 30000>>, 65036, 45, <<0, 2000>>, <<0, 0>>)
                 ELSE NoData]
  /\ perr = [t \in Tasks |-> {}]
  /\ post = [t \in Tasks |-> IF t = 1 THEN "json" ELSE "none"]
  /\ resp = [t \in Tasks |-> NoReply]
  /\ praw = [t \in Tasks |-> NoRaw]
  /\ att = [t \in Tasks |->
              IF t = 1
                THEN [NoAtt EXCEPT !.mode = "charge_grid_batfirst", !.w = 2000,
                                   !.last0 = NoSig]
                ELSE NoAtt]
  /\ wlog = [t \in Tasks |-> <<>>]
  /\ result = [t \in Tasks |-> NoResult]
  /\ pc = [t \in Tasks |-> IF t = 1 THEN "a_lock" ELSE "idle"]
  /\ faults = MaxFaults
  /\ runs = [t \in Tasks |-> IF t = 1 THEN RetryCycles ELSE 0]
  /\ call = NoCall

NextRetry ==
  \E t \in Tasks :
    \/ StartCycle(t)
    \/ PollLock(t)
    \/ PollConnect(t)
    \/ PollPv(t)
    \/ PollGrid(t)
    \/ PollSoc(t)
    \/ PollBms(t)
    \/ PollPdis(t)
    \/ PollPch(t)
    \/ SendToSpock(t)
    \/ SpockReply(t)
    \/ Translate(t)
    \/ ApplyLock(t)
    \/ ApplyConnect(t)
    \/ ApplyBackup(t)
    \/ ApplyPrecheck(t)
    \/ TouRead(t)
    \/ TouDisableT2(t)
    \/ TouDisableT3(t)
    \/ TouForceT1(t)
    \/ ReadbackStep(t)
    \/ GridChargeWrite(t)
    \/ ChargeRateWrite(t)
    \/ DischargeRead(t)
    \/ DischargeWrite(t)
    \/ DischargeUndoWrite(t)
    \/ ApplyPostcheck(t)
    \/ RollbackStep(t)
    \/ ApplyExit(t)
    \/ Commit(t)
    \/ ApplyErrorCaught(t)
    \/ CycleEnd(t)

SpecRetry == InitRetry /\ [][NextRetry]_vars

----------------------------------------------------------------------------
(* The helper functions on their own *)

\* arguments of _watts_to_percent: watts below, at and above zero, around
\* each percent of a base of 100, at and beyond the base; bases below, at
\* and above zero
PctWatts == (-3..203) \cup {-5000, 4500, 8999, 9000, 9001, 18000, 1000000}
PctBases == {-9000, -1, 0, 1, 100, 9000}

\* every 16-bit word
Words == 0..(65536 - 1)

\* the battery_max_w option of the config entry: not set, an integer, or a
\* value int() does not take
BaseOptions ==
  {[k |-> "absent", v |-> 0], [k |-> "bad", v |-> 0]}
  \cup {[k |-> "int", v |-> b] : b \in {-1, 0, 100, 200, 5000, 9000}}

\* self.battery_max_w as __init__ leaves it
BatteryMaxW(o) ==
  IF o.k = "int" /\ o.v > 0 THEN o.v ELSE DEFAULT_BATTERY_MAX_W

\* the watts of a directive handed to an apply
RateWatts == PctWatts \cup {2000, 4905, 5000, 5175}

Calls ==
  {[f |-> "_watts_to_percent", args |-> <<w, b, z>>, returned |-> FALSE,
    out |-> 0] : w \in PctWatts, b \in PctBases, z \in BOOLEAN}
  \cup
  {[f |-> "_decode_s16", args |-> <<u>>, returned |-> FALSE, out |-> 0] :
     u \in Words}
  \cup
  {[f |-> f, args |-> <<w, o>>, returned |-> FALSE, out |-> 0] :
     f \in {"charge_rate", "discharge_rate"}, w \in RateWatts, o \in BaseOptions}

InitFn ==
  /\ InitIdle
  /\ hr = FactoryPreset
  /\ faults = 0
  /\ runs = [t \in Tasks |-> 0]
  /\ call \in Calls

ProgramIdle ==
  UNCHANGED <<pc, mutex, connected, hr, nominal, lastSig, data, perr, post,
              resp, praw, att, wlog, result, faults, runs>>

Eval_watts_to_percent ==
  /\ call.f = "_watts_to_percent"
  /\ ~call.returned
  /\ call' = [call EXCEPT !.returned = TRUE,
                          !.out = _watts_to_percent(call.args[1], call.args[2],
                                                    call.args[3])]
  /\ ProgramIdle

Eval_decode_s16 ==
  /\ call.f = "_decode_s16"
  /\ ~call.returned
  /\ call' = [call EXCEPT !.returned = TRUE, !.out = _decode_s16(call.args[1])]
  /\ ProgramIdle

\* the percent an apply writes for a directive of call.args[1] watts under
\* the option call.args[2]
Eval_apply_rate ==
  /\ call.f \in {"charge_rate", "discharge_rate"}
  /\ ~call.returned
  /\ call' = [call EXCEPT
                !.returned = TRUE,
                !.out = IF call.f = "charge_rate"
                          THEN ChargeRatePct(call.args[1], BatteryMaxW(call.args[2]))
                          ELSE DischargeRatePct(call.args[1],
                                                BatteryMaxW(call.args[2]))]
  /\ ProgramIdle

NextFn == Eval_watts_to_percent \/ Eval_decode_s16 \/ Eval_apply_rate

SpecFn == InitFn /\ [][NextFn]_vars

----------------------------------------------------------------------------
(* Properties *)

\* the labels of _read_modbus_sync inside its "with self._modbus_mutex"
PollSection == {"p_connect", "p_nom10", "p_nom3005", "p_pv", "p_grid",
                "p_soc", "p_bms", "p_pdis", "p_pch"}

\* the labels of _apply_control_sync inside its "with self._modbus_mutex"
ApplySection == {"a_connect", "a_backup", "a_precheck", "t_read", "t2_write",
                 "t2_rb", "t3_write", "t3_rb", "t1_write", "t1_rb_cfg",
                 "t1_rb_end", "g_write", "g_rb", "c_write", "c_rb", "d_read",
                 "d_write", "d_rb", "d_undo_write", "d_undo_rb",
                 "a_postcheck", "rollback", "a_exit"}

InBusSection(t) == pc[t] \in PollSection \cup ApplySection

\* the exceptions _apply_control_sync raises inside its try block
TryFailures == {"read_error", "write_error", "readback_failed",
                "offline_after"}

\* the exceptions it raises before the try block
EarlyFailures == {"connect", "backup", "offline_before"}

\* the signature an attempt was started for
AttemptSig(t) == <<att[t].mode, att[t].w>>

\* a restore write of register r with its backup value has been issued
RestoreIssued(t, r) ==
  \E k \in 1..Len(wlog[t]) :
     /\ wlog[t][k].ph = "rollback"
     /\ wlog[t][k].reg = r
     /\ wlog[t][k].val = att[t].backup[r]

AllRestored(t) ==
  \A r \in HRegs : att[t].backup[r] # -1 => RestoreIssued(t, r)

RollbackWritten(t) ==
  \E k \in 1..Len(wlog[t]) : wlog[t][k].ph = "rollback"

\* C1: the poll and the control apply never interleave on the bus: at most
\* one task is between taking the bus lock and leaving its bus section, and
\* that task is the holder of the lock
C1_BusExclusive ==
  /\ \A a, b \in Tasks : a # b => ~(InBusSection(a) /\ InBusSection(b))
  /\ \A t \in Tasks : InBusSection(t) => mutex = t

\* an apply that has already written registers while the other task's poll
\* waits for the lock
C1_Witness ==
  \E a, b \in Tasks :
     /\ pc[a] \in ApplySection
     /\ wlog[a] # <<>>
     /\ pc[b] = "p_lock"

\* C2 as stated: after any failure between BACKUP and COMMIT (the precheck
\* included) every backed-up register has been re-written with its backup
\* value and the Last Applied Signature is the one found before the attempt
C2_Original ==
  \A t \in Tasks :
     (pc[t] = "a_exit" /\ att[t].exc \in TryFailures \cup {"offline_before"})
       => AllRestored(t) /\ lastSig = att[t].last0

\* C2 amended: after a failure raised once the precheck has passed (read or
\* write error, read-back mismatch, battery offline at the postcheck) a
\* restore write with the backup value has been issued for every register
\* of the backup, the discharge rate only if its backup read succeeded; and
\* after any failure from the precheck on the Last Applied Signature is the
\* one found before the attempt
C2_Amended ==
  \A t \in Tasks :
     /\ (pc[t] = "a_exit" /\ att[t].exc \in TryFailures)
          => /\ AllRestored(t)
             /\ \A r \in HRegs \ {_HR_DISCHARGE_POWER_RATE} :
                   att[t].backup[r] # -1
     /\ (/\ pc[t] \in {"a_exit", "a_err", "done"}
         /\ att[t].exc \in TryFailures \cup {"offline_before"})
          => lastSig = att[t].last0

C2_Witness ==
  \E t \in Tasks :
     /\ pc[t] = "a_exit"
     /\ att[t].exc = "offline_after"
     /\ att[t].backup[_HR_DISCHARGE_POWER_RATE] # -1
     /\ AllRestored(t)

\* C3: no apply attempt is ever under way for a directive whose signature
\* equals the Last Applied Signature; a cycle that meets such a directive
\* ends without an attempt, without a control write and with the signature
\* as it was
C3_Idempotent ==
  /\ [](\A t \in Tasks :
          pc[t] \in ApplySection \cup {"a_lock"} => AttemptSig(t) # lastSig)
  /\ [][\A t \in Tasks :
          (/\ pc[t] = "translate"
           /\ pc'[t] # "translate"
           /\ StatusAccepted(resp[t].status)
           /\ ~_parse_action_w(resp[t].action).raised
           /\ DesiredAction(ModeNorm(resp[t].operation_mode),
                            _parse_action_w(resp[t].action).v) = lastSig)
            => /\ pc'[t] = "done"
               /\ result'[t] = [kind |-> "data", data |-> data[t],
                                via |-> "unchanged"]
               /\ att'[t] = NoAtt
               /\ <<lastSig, hr, wlog>>' = <<lastSig, hr, wlog>>]_vars

C3_Witness ==
  \E t \in Tasks :
     /\ pc[t] = "done"
     /\ result[t].via = "unchanged"
     /\ lastSig # NoSig

\* C4: the Last Applied Signature changes only in the step that follows a
\* return of _apply_control_sync without an exception, and then to the
\* signature of that attempt
C4_OnlyCommit ==
  [][lastSig' # lastSig =>
       \E t \in Tasks :
          /\ pc[t] = "a_ret"
          /\ pc'[t] = "done"
          /\ att[t].exc = "none"
          /\ att[t].post = "online"
          /\ lastSig' = AttemptSig(t)]_vars

C4_Witness ==
  \E t \in Tasks :
     /\ pc[t] = "done"
     /\ result[t].via = "applied"
     /\ lastSig = AttemptSig(t)
     /\ lastSig # att[t].last0

\* C5: a directive is committed only if the battery was online in the
\* snapshot before the first write and in the snapshot after the last one;
\* an offline snapshot always ends the attempt with an error
C5_BothOnline ==
  \A t \in Tasks :
     /\ (pc[t] = "a_ret" \/ (pc[t] = "done" /\ result[t].via = "applied"))
          => att[t].pre = "online" /\ att[t].post = "online"
     /\ (att[t].pre = "offline" \/ att[t].post = "offline")
          => att[t].exc \in {"offline_before", "offline_after"}
     /\ pc[t] = "a_precheck" => wlog[t] = <<>>

C5_Witness ==
  \E t \in Tasks :
     /\ pc[t] = "a_ret"
     /\ att[t].pre = "online"
     /\ att[t].post = "online"

\* C6: when the battery is offline at the precheck, the attempt ends
\* without having written any register, the rollback writes included, and
\* the registers hold what the backup read
C6_NoWriteWhenOfflineBefore ==
  \A t \in Tasks :
     (pc[t] = "a_exit" /\ att[t].exc = "offline_before")
       => /\ wlog[t] = <<>>
          /\ ~att[t].rolled
          /\ \A r \in HRegs : att[t].backup[r] # -1 => hr[r] = att[t].backup[r]

C6_Witness ==
  \E t \in Tasks :
     /\ pc[t] = "a_exit"
     /\ att[t].exc = "offline_before"
     /\ att[t].pre = "offline"

\* C7 as stated: every attempt that ends in an error (connect, backup and
\* precheck failures included) has run the rollback before the error reaches
\* the caller
C7_Original ==
  \A t \in Tasks : pc[t] = "a_err" => att[t].rolled

\* C7 amended: an attempt whose error was raised inside the try block (the
\* apply step or the postcheck) has run the rollback before the error
\* reaches the caller; an attempt that fails at connect, in the backup reads
\* or at the precheck reports its error without any rollback write
C7_Amended ==
  \A t \in Tasks :
     /\ pc[t] \in {"a_exit", "a_err"}
          => /\ att[t].exc \in TryFailures => att[t].rolled
             /\ att[t].exc \in EarlyFailures => ~att[t].rolled
     /\ pc[t] = "a_exit"
          => /\ att[t].rolled <=> RollbackWritten(t)
             /\ att[t].exc \in TryFailures \cup EarlyFailures \cup {"none"}

C7_Witness ==
  \E t \in Tasks :
     /\ pc[t] = "a_err"
     /\ att[t].exc = "write_error"
     /\ att[t].rolled

\* C8: a failing apply attempt never fails the cycle: the cycle ends with
\* the snapshot of its poll, and the bus lock is free for the next cycle
C8_ApplyFailureTolerated ==
  \A t \in Tasks :
     (pc[t] \in {"done", "failed"} /\ att[t].exc # "none")
       => /\ pc[t] = "done"
          /\ result[t] = [kind |-> "data", data |-> data[t],
                          via |-> "apply_failed"]
          /\ data[t] # NoData
          /\ mutex # t

C8_Witness ==
  \E t \in Tasks :
     /\ pc[t] = "done"
     /\ att[t].exc = "readback_failed"
     /\ result[t].kind = "data"

\* C9 as stated: the poll hands over a snapshot only if every read that
\* feeds it succeeded (the SOC reads included)
C9_Original ==
  \A t \in Tasks : pc[t] = "polled" => perr[t] = {}

\* C10 as stated: whenever the POST fails in transport (a client error or
\* the total timeout) the cycle still succeeds with its snapshot
C10_Original ==
  \A t \in Tasks :
     (pc[t] \in {"done", "failed"} /\ post[t] \in {"clienterror", "timeout"})
       => result[t].kind = "data"

\* C11 as stated: a reply with a status other than 200, or whose body is not
\* valid JSON, ends the cycle with the snapshot and without an apply attempt
C11_Original ==
  \A t \in Tasks :
     (/\ pc[t] \in {"done", "failed"}
      /\ post[t] \in {"non200", "nonjson", "undecodable"})
       => /\ result[t] = [kind |-> "data", data |-> data[t], via |-> "no_json"]
          /\ att[t] = NoAtt

\* C12 as stated: whatever a valid-JSON reply contains, the cycle returns
\* the snapshot
C12_Original ==
  \A t \in Tasks :
     (pc[t] \in {"done", "failed"} /\ post[t] = "json")
       => result[t].kind = "data" /\ result[t].data = data[t]

\* what the translate step of a rejected directive does: the cycle ends
\* with the snapshot, no attempt is started, nothing else changes
EndsWithoutAttempt(t) ==
  /\ pc'[t] = "done"
  /\ result'[t].kind = "data"
  /\ result'[t].data = data[t]
  /\ att'[t] = NoAtt
  /\ <<lastSig, hr, wlog, mutex>>' = <<lastSig, hr, wlog, mutex>>

\* C13 as stated: a status that is present and not "ok", whatever the other
\* fields, starts no apply attempt and leaves the Last Applied Signature
C13_Original ==
  [][\A t \in Tasks :
       (pc[t] = "translate" /\ resp[t].status \notin {"absent", "ok", " OK "})
         => EndsWithoutAttempt(t)]_vars

\* C13 amended: a status whose text, trimmed and lower-cased, is not empty
\* and not "ok" (a JSON null included), whatever the other fields, starts no
\* apply attempt and leaves the Last Applied Signature; an empty status is
\* treated like an absent one
C13_Amended ==
  [][\A t \in Tasks :
       /\ (/\ pc[t] = "translate"
           /\ resp[t].status \notin {"absent", "", "ok", " OK "})
            => EndsWithoutAttempt(t)
       /\ (/\ pc[t] = "translate"
           /\ resp[t].status = ""
           /\ resp[t].operation_mode = "charge"
           /\ resp[t].action = Int2000)
            => pc'[t] = "a_lock"]_vars

C13_Witness ==
  \E t \in Tasks :
     /\ pc[t] = "done"
     /\ result[t].via = "status"
     /\ att[t] = NoAtt

\* the Desired Action table: the watts of an action (0 for a null, empty or
\* unparsable one) and the row of the mode
TableWatts(a) ==
  IF a.k \in {"int", "float", "str"} THEN RoundHalfEven(a.n, a.d) ELSE 0

Table(r) ==
  LET m == r.operation_mode
      w == TableWatts(r.action)
  IN  IF m \in {"charge", "Discharge"} /\ w = 0 THEN <<"load_first", 0>>
      ELSE IF m = "charge" THEN <<"charge_grid_batfirst", w>>
      ELSE IF m = "Discharge" THEN <<"load_first", w>>
      ELSE <<"load_first", 5000>>

\* C14 as stated: for every accepted directive (status absent or "ok") the
\* translator computes the Desired Action of the table, whatever the action
C14_Original ==
  [][\A t \in Tasks :
       (/\ pc[t] = "translate"
        /\ resp[t].status \in {"absent", "ok", " OK "}
        /\ Table(resp[t]) # lastSig)
         => pc'[t] = "a_lock" /\ AttemptSig(t)' = Table(resp[t])]_vars

\* a finished evaluation of _watts_to_percent
PctReturned == call.f = "_watts_to_percent" /\ call.returned

PctIdentities ==
  LET watts == call.args[1]
      base_w == call.args[2]
      allow_zero == call.args[3]
  IN  /\ (watts = 0 /\ allow_zero) => call.out = 0
      /\ (watts = 0 /\ ~allow_zero) => call.out = 1
      /\ watts = base_w => call.out = 100
      /\ call.out \in (IF allow_zero THEN 0..100 ELSE 1..100)

\* C15 as stated: for every watts and every base, the three identities and
\* the declared bound
C15_Original == PctReturned => PctIdentities

\* C15 amended: for every watts and every base above zero,
\* _watts_to_percent(0, base, True) = 0, _watts_to_percent(0, base, False) = 1,
\* _watts_to_percent(base, base, any) = 100 and the result lies in [0,100]
\* when allow_zero is true and in [1,100] when it is false; for a base of
\* zero or below the result is 0 whatever the other arguments
C15_Amended ==
  PctReturned =>
    /\ call.args[2] > 0 => PctIdentities
    /\ call.args[2] <= 0 => call.out = 0

C15_Witness ==
  /\ PctReturned
  /\ call.args = <<1000000, 9000, FALSE>>
  /\ call.out = 100

\* C16 as stated: while an apply attempt that has written registers still
\* has register operations ahead (its sequence or its rollback), the
\* connection is not closed
C16_Original ==
  \A t \in Tasks :
     (pc[t] \in ApplySection \ {"a_exit"} /\ wlog[t] # <<>>) => connected

\* C17 as stated: the state of charge of every snapshot a poll produces is
\* an integer from 0 to 100
C17_Original ==
  \A t \in Tasks :
     data[t] # NoData => data[t].battery_soc_total \in 0..100

\* C18: for every 16-bit word w, _decode_s16(w) lies in -32768..32767, is w
\* when bit 15 is clear and w - 65536 when it is set; 0x8000 gives -32768,
\* 0x7FFF gives 32767 and 0x0001 gives 1
C18_DecodeS16 ==
  (call.f = "_decode_s16" /\ call.returned) =>
    LET w == call.args[1]
    IN  /\ call.out \in -32768..32767
        /\ w < 32768 => call.out = w
        /\ w >= 32768 => call.out = w - 65536
        /\ w = 32768 => call.out = -32768
        /\ w = 32767 => call.out = 32767
        /\ w = 1 => call.out = 1

C18_Witness ==
  /\ call.f = "_decode_s16"
  /\ call.returned
  /\ call.args = <<32768>>
  /\ call.out = -32768

\* C19 as stated: every register the apply step writes has its pre-action
\* value in the Register Backup
C19_Original ==
  \A t \in Tasks :
     \A k \in 1..Len(wlog[t]) :
        wlog[t][k].ph = "apply" => att[t].backup[wlog[t][k].reg] # -1

\* the read-backs of the TOU-window writes and of the grid-charge write
LenientRb == {"t2_rb", "t3_rb", "t1_rb_cfg", "t1_rb_end", "g_rb"}

\* the step taken now is the last iteration of a read-back: the read
\* succeeds and the register still differs from the word written
NeverConverged(t) ==
  /\ pc[t] \in RbLabels
  /\ att[t].i = _READBACK_RETRIES
  /\ hr[RbReg(pc[t])] # RbExpected(t, pc[t])
  /\ faults' = faults
  /\ pc'[t] # pc[t]

\* C20: a read-back of a TOU-window or grid-charge write that never
\* converges lets the apply go on with its next step, without an error; a
\* read-back of the discharge-rate write that never converges leads to the
\* undo write and from there only to the rollback, so that an attempt which
\* ends without error has its discharge-rate write stored, and one that
\* ends with the read-back error has run the full rollback
C20_ReadbackStrictness ==
  /\ [][\A t \in Tasks :
          /\ (NeverConverged(t) /\ pc[t] \in LenientRb)
               => /\ pc'[t] = RbNext(t, pc[t], TRUE)
                  /\ pc'[t] \notin {"rollback", "a_exit"}
                  /\ att'[t].exc = "none"
          /\ (NeverConverged(t) /\ pc[t] = "d_rb")
               => pc'[t] = "d_undo_write" /\ att'[t].exc = "none"
          /\ pc[t] \in {"d_undo_write", "d_undo_rb"}
               => pc'[t] \in {"d_undo_write", "d_undo_rb", "rollback"}]_vars
  /\ [](\A t \in Tasks :
          /\ (pc[t] = "a_exit" /\ att[t].exc = "none")
               => \A k \in 1..Len(wlog[t]) :
                     wlog[t][k].reg = _HR_DISCHARGE_POWER_RATE
                       => hr[_HR_DISCHARGE_POWER_RATE] = wlog[t][k].val
          /\ (pc[t] = "a_exit" /\ att[t].exc = "readback_failed")
               => att[t].rolled /\ AllRestored(t))

\* an attempt that ends without error although a TOU-window or grid-charge
\* write was never stored
C20_Witness ==
  \E t \in Tasks :
     /\ pc[t] = "a_exit"
     /\ att[t].exc = "none"
     /\ att[t].post = "online"
     /\ \E k \in 1..Len(wlog[t]) :
           /\ wlog[t][k].reg \in {_T1_CFG, _T1_END, _T2_CFG, _T3_CFG,
                                  _HR_GRID_CHARGE_ENABLE}
           /\ hr[wlog[t][k].reg] # wlog[t][k].val

\* C21: a charge_grid_battery_first apply ends without error, and so is
\* committed, only if the charge-rate register holds the target percent,
\* i.e. only if its write was read back equal
C21_Original ==
  \A t \in Tasks :
     (/\ pc[t] = "a_exit"
      /\ att[t].exc = "none"
      /\ att[t].mode = "charge_grid_batfirst")
       => hr[_HR_CHARGE_POWER_RATE] = ChargePct(t)

\* C22: during the rollback every restore write is attempted whatever the
\* outcome of the earlier ones: when the rollback has ended, each register
\* with a backup value has been written exactly once with that value,
\* though any subset of these writes may have failed; and the rollback
\* raises no error of its own: the error of the apply is still the one in
\* flight at each of its steps and at its end
C22_RollbackBestEffort ==
  /\ [](\A t \in Tasks :
          (pc[t] = "a_exit" /\ att[t].exc \in TryFailures)
            => /\ att[t].rolled
               /\ \A r \in HRegs :
                    att[t].backup[r] # -1
                      => Cardinality({k \in 1..Len(wlog[t]) :
                                        /\ wlog[t][k].ph = "rollback"
                                        /\ wlog[t][k].reg = r
                                        /\ wlog[t][k].val = att[t].backup[r]}) = 1)
  /\ [][\A t \in Tasks :
          pc[t] = "rollback"
            => /\ att'[t].exc = att[t].exc
               /\ att[t].exc \in TryFailures
               /\ pc'[t] \in {"rollback", "a_exit"}]_vars

\* a rollback has ended whose first and third restore writes (grid-charge
\* enable, window 1) had no effect and whose later restore of window 3 put
\* back the value the apply had changed
C22_Witness ==
  \E t \in Tasks :
     /\ pc[t] = "a_exit"
     /\ att[t].rolled
     /\ hr[_HR_GRID_CHARGE_ENABLE] # att[t].backup[_HR_GRID_CHARGE_ENABLE]
     /\ hr[_T1_CFG] # att[t].backup[_T1_CFG]
     /\ hr[_T3_CFG] = att[t].backup[_T3_CFG]
     /\ \E k \in 1..Len(wlog[t]) :
           /\ wlog[t][k].ph = "apply"
           /\ wlog[t][k].reg = _T3_CFG
           /\ wlog[t][k].val # att[t].backup[_T3_CFG]

\* C23: the rollback restores the registers in the reverse of the order in
\* which the apply wrote them: of two registers written by different
\* requests of the apply, the one written later is restored first
C23_Original ==
  \A t \in Tasks :
     (pc[t] = "a_exit" /\ att[t].rolled)
       => \A i, j \in 1..Len(wlog[t]) :
            (/\ i < j
             /\ wlog[t][i].ph = "apply"
             /\ wlog[t][j].ph = "apply"
             /\ wlog[t][i].reg # wlog[t][j].reg
             /\ {wlog[t][i].reg, wlog[t][j].reg} # {_T1_CFG, _T1_END})
              => \A m, n \in 1..Len(wlog[t]) :
                   (/\ wlog[t][m].ph = "rollback"
                    /\ wlog[t][n].ph = "rollback"
                    /\ wlog[t][m].reg = wlog[t][i].reg
                    /\ wlog[t][n].reg = wlog[t][j].reg)
                     => n < m

\* C24: in a charge_grid_battery_first apply the writes of the apply are,
\* in this order: window 2 cfg with bit 15 cleared, only if it was set;
\* window 3 cfg likewise; window 1 as the pair cfg 0xA000 (enabled, battery
\* first, start 00:00), end 0x173B (23:59), whatever window 1 held; grid
\* charge enable 1; then the charge rate. No other register, and so no end
\* register of window 2 or 3, is written.
C24_ChargeTouWrites ==
  \A t \in Tasks :
     att[t].mode = "charge_grid_batfirst"
       => LET b == att[t].backup
              dis(r) == IF b[r] >= 32768
                          THEN << [reg |-> r, val |-> b[r] - 32768] >>
                          ELSE << >>
              expected == dis(_T2_CFG) \o dis(_T3_CFG) \o
                          << [reg |-> _T1_CFG, val |-> 40960],
                             [reg |-> _T1_END, val |-> 5947],
                             [reg |-> _HR_GRID_CHARGE_ENABLE, val |-> 1] >>
          IN  \A k \in 1..Len(wlog[t]) :
                 wlog[t][k].ph = "apply"
                   => IF k <= Len(expected)
                        THEN /\ wlog[t][k].reg = expected[k].reg
                             /\ wlog[t][k].val = expected[k].val
                        ELSE /\ k = Len(expected) + 1
                             /\ wlog[t][k].reg = _HR_CHARGE_POWER_RATE

\* a charge apply on an inverter with windows 2 and 3 enabled and window 1
\* in another mode has written the two disables, window 1 and the grid
\* charge enable, and the device holds the new window 1
C24_Witness ==
  \E t \in Tasks :
     /\ att[t].mode = "charge_grid_batfirst"
     /\ Len(wlog[t]) >= 5
     /\ wlog[t][1].reg = _T2_CFG
     /\ wlog[t][2].reg = _T3_CFG
     /\ wlog[t][5].reg = _HR_GRID_CHARGE_ENABLE
     /\ att[t].backup[_T1_CFG] = 49152
     /\ hr[_T1_CFG] = 40960
     /\ hr[_T1_END] = 5947
     /\ hr[_HR_GRID_CHARGE_ENABLE] = 1

\* C25: in a load_first apply the writes are, in this order: the disables
\* of windows 2 and 3 where enabled and window 1 as cfg 0x8000 (enabled,
\* load first, 00:00), end 0x173B; then the discharge rate, written only
\* when the register differs from the target percent; then, last, grid
\* charge enable 0, written only when the discharge-rate register holds
\* the target (its write was read back, or none was needed) and never
\* after the undo write of a failed read-back
C25_LoadFirstOrder ==
  /\ [](\A t \in Tasks :
          att[t].mode = "load_first"
            => LET b == att[t].backup
                   dis(r) == IF b[r] >= 32768
                               THEN << [reg |-> r, val |-> b[r] - 32768] >>
                               ELSE << >>
                   tou == dis(_T2_CFG) \o dis(_T3_CFG) \o
                          << [reg |-> _T1_CFG, val |-> 32768],
                             [reg |-> _T1_END, val |-> 5947] >>
                   n == Len(tou)
                   rate(e) == e.reg = _HR_DISCHARGE_POWER_RATE /\ e.ph = "apply"
                   undo(e) == e.reg = _HR_DISCHARGE_POWER_RATE /\ e.ph = "undo"
                   grid(e) == /\ e.reg = _HR_GRID_CHARGE_ENABLE
                              /\ e.ph = "apply"
                              /\ e.val = 0
               IN  \A k \in 1..Len(wlog[t]) :
                      wlog[t][k].ph # "rollback"
                        => /\ k <= n + 2
                           /\ k <= n => /\ wlog[t][k].ph = "apply"
                                        /\ wlog[t][k].reg = tou[k].reg
                                        /\ wlog[t][k].val = tou[k].val
                           /\ k = n + 1 => rate(wlog[t][k]) \/ grid(wlog[t][k])
                           /\ k = n + 2 => /\ rate(wlog[t][n + 1])
                                           /\ undo(wlog[t][k]) \/ grid(wlog[t][k]))
  /\ [][\A t \in Tasks :
          (/\ att[t].mode = "load_first"
           /\ Len(wlog'[t]) = Len(wlog[t]) + 1
           /\ wlog'[t][Len(wlog'[t])].ph = "apply")
            => LET e == wlog'[t][Len(wlog'[t])]
               IN  /\ e.reg = _HR_DISCHARGE_POWER_RATE
                     => /\ e.val = RoundHalfEven(100 * att[t].w, battery_max_w)
                        /\ hr[_HR_DISCHARGE_POWER_RATE] # e.val
                   /\ e.reg = _HR_GRID_CHARGE_ENABLE
                     => hr[_HR_DISCHARGE_POWER_RATE] =
                          RoundHalfEven(100 * att[t].w, battery_max_w)]_vars

\* a load_first apply has written the discharge rate and then, last, grid
\* charge enable 0, and ends without error
C25_Witness ==
  \E t \in Tasks :
     /\ pc[t] = "a_exit"
     /\ att[t].mode = "load_first"
     /\ att[t].exc = "none"
     /\ Len(wlog[t]) >= 4
     /\ wlog[t][Len(wlog[t]) - 1].reg = _HR_DISCHARGE_POWER_RATE
     /\ wlog[t][Len(wlog[t])].reg = _HR_GRID_CHARGE_ENABLE
     /\ hr[_HR_GRID_CHARGE_ENABLE] = 0

\* C26: for every directive and every configured base the percent written
\* to the charge-rate register is 100 * watts / base rounded to the nearest
\* integer (a half rounded to even or upwards) and clamped to [1,100], and
\* the percent written as the new discharge rate is the same clamped to
\* [0,100]; the base is the configured one, or 9000 where none above zero
\* is configured
C26_Original ==
  (call.f \in {"charge_rate", "discharge_rate"} /\ call.returned)
    => LET watts == call.args[1]
           base == IF call.args[2].k = "int" /\ call.args[2].v > 0
                     THEN call.args[2].v ELSE 9000
           lo == IF call.f = "charge_rate" THEN 1 ELSE 0
           cl(v) == IF v < lo THEN lo ELSE IF v > 100 THEN 100 ELSE v
       IN  call.out \in {cl(RoundHalfEven(100 * watts, base)),
                         cl((200 * watts + base) \div (2 * base))}

\* C27: while the nominal power cache is unset a poll sets it only from a
\* value of holding register 10 inside one of the two bands; once that
\* read gave another value or an error, the cache is still unset when the
\* poll goes on to the PV read
C27_Original ==
  [][\A t \in Tasks :
       /\ (pc[t] = "p_nom3005" /\ pc'[t] # pc[t]) => nominal' = -1
       /\ (pc[t] = "p_nom10" /\ pc'[t] # pc[t] /\ nominal' # -1)
            => nominal' \in 50000..70000]_vars

\* C28: every read-back ends after at most 8 reads, whatever the device
\* returns: the read in hand is always one of the reads 1..8; a read that
\* returns the expected word ends the read-back at once with true; a read
\* that returns another word is followed by the next read while fewer than
\* 8 were made, and the eighth such read ends the read-back with false
C28_ReadbackBounded ==
  /\ [](\A t \in Tasks : pc[t] \in RbLabels => att[t].i \in 1..8)
  /\ [][\A t \in Tasks :
          (/\ pc[t] \in RbLabels
           /\ att'[t] # att[t] \/ pc'[t] # pc[t]
           /\ faults' = faults)
            => IF hr[RbReg(pc[t])] = RbExpected(t, pc[t])
                 THEN /\ pc'[t] # pc[t]
                      /\ att'[t].ok
               ELSE IF att[t].i < 8
                 THEN /\ pc'[t] = pc[t]
                      /\ att'[t].i = att[t].i + 1
               ELSE /\ pc'[t] # pc[t]
                    /\ ~att'[t].ok \/ pc'[t] = "rollback"]_vars

\* the fifth read of the read-back of the discharge rate is about to find
\* the word that the four reads before it did not find
C28_Witness ==
  \E t \in Tasks :
     /\ pc[t] = "d_rb"
     /\ att[t].i = 5
     /\ hr[_HR_DISCHARGE_POWER_RATE] = RbExpected(t, "d_rb")

\* C29: within a cycle the stages run strictly in the order poll, publish,
\* translate/apply. The POST is issued only from the end of a poll that
\* returned its snapshot and released the lock; the translator and the
\* apply run only when the POST has ended, and only on a JSON reply; a
\* cycle whose poll failed ends without a POST and without an apply
C29_StageOrder ==
  /\ [](\A t \in Tasks :
          /\ pc[t] \in {"polled", "posting"}
               => /\ data[t] # NoData
                  /\ mutex # t
                  /\ post[t] = "none"
                  /\ att[t] = NoAtt
          /\ pc[t] \in {"translate", "a_lock", "a_ret", "a_err"} \cup ApplySection
               => /\ data[t] # NoData
                  /\ post[t] = "json"
          /\ pc[t] \in {"p_lock"} \cup PollSection
               => /\ data[t] = NoData
                  /\ post[t] = "none"
                  /\ att[t] = NoAtt
          /\ (pc[t] = "failed" /\ post[t] = "none")
               => /\ att[t] = NoAtt
                  /\ wlog[t] = << >>
                  /\ result[t].kind = "failed")
  /\ [][\A t \in Tasks :
          /\ (pc'[t] = "polled" /\ pc[t] # "polled") => pc[t] = "p_pch"
          /\ (pc'[t] = "posting" /\ pc[t] # "posting") => pc[t] = "polled"
          /\ (pc'[t] = "translate" /\ pc[t] # "translate")
               => pc[t] = "posting"
          /\ (pc'[t] = "a_lock" /\ pc[t] # "a_lock") => pc[t] = "translate"
          /\ (pc[t] \in {"p_lock"} \cup PollSection)
               => pc'[t] \in {"p_lock", "polled", "failed"} \cup PollSection
          /\ (pc[t] \in {"p_lock"} \cup PollSection /\ pc'[t] = "failed")
               => /\ post'[t] = "none"
                  /\ mutex' # t]_vars

\* a cycle has failed in its poll, after a read error, with no POST made
\* and no apply attempt begun
C29_Witness ==
  \E t \in Tasks :
     /\ pc[t] = "failed"
     /\ data[t] = NoData
     /\ post[t] = "none"
     /\ faults < MaxFaults
     /\ lastSig # NoSig

\* C30: the bus lock is released whenever a poll or an apply ends, on every
\* exit path: a task outside its bus section never holds the lock, the
\* step by which a task leaves its bus section (return, failed connect,
\* read error, failed check, re-raise after rollback) leaves the lock free,
\* and when no task is inside a bus section the lock is free, so that the
\* next poll or apply can take it
C30_LockReleased ==
  /\ [](/\ mutex \in {0} \cup Tasks
        /\ \A t \in Tasks : ~InBusSection(t) => mutex # t
        /\ (\A t \in Tasks : ~InBusSection(t)) => mutex = 0)
  /\ [][\A t \in Tasks :
          (InBusSection(t) /\ pc'[t] \notin PollSection \cup ApplySection)
            => /\ mutex = t
               /\ mutex' = 0
               /\ pc'[t] \in {"polled", "failed", "a_ret", "a_err"}]_vars

\* one task's apply has ended with the error of its try block, after the
\* rollback, and the other task has taken the lock since
C30_Witness ==
  \E a, b \in Tasks :
     /\ a # b
     /\ pc[a] = "a_err"
     /\ att[a].exc \in TryFailures
     /\ att[a].rolled
     /\ mutex = b
     /\ InBusSection(b)

\* C31: a directive whose apply attempt failed is not held back by the
\* idempotence guard. The last applied signature changes only by the commit
\* of an attempt that returned, so a failed attempt leaves it as it was,
\* different from the attempt's signature; every later cycle whose accepted
\* reply translates to a signature other than the last applied one starts
\* an attempt for it; and no cycle ends as "unchanged" while nothing has
\* been committed
C31_FailedNotSuppressed ==
  /\ [][lastSig' # lastSig
          => \E t \in Tasks : /\ pc[t] = "a_ret"
                              /\ att[t].exc = "none"
                              /\ lastSig' = <<att[t].mode, att[t].w>>]_vars
  /\ [](\A t \in Tasks :
          /\ pc[t] \in {"a_lock"} \cup ApplySection
               => /\ <<att[t].mode, att[t].w>> # lastSig
                  /\ att[t].last0 = lastSig
          /\ pc[t] = "a_err" => att[t].last0 = lastSig
          /\ (pc[t] = "done" /\ result[t].via = "unchanged")
               => lastSig # NoSig)
  /\ [][\A t \in Tasks :
          (/\ pc[t] = "translate"
           /\ pc'[t] # "translate"
           /\ StatusAccepted(resp[t].status)
           /\ ~_parse_action_w(resp[t].action).raised
           /\ DesiredAction(ModeNorm(resp[t].operation_mode),
                            _parse_action_w(resp[t].action).v) # lastSig)
            => /\ pc'[t] = "a_lock"
               /\ <<att'[t].mode, att'[t].w>> =
                    DesiredAction(ModeNorm(resp[t].operation_mode),
                                  _parse_action_w(resp[t].action).v)]_vars

\* in the cycle that follows the failed attempt for (charge_grid_batfirst,
\* 2000) the same directive arrived and a new attempt for it stands before
\* _apply_control_sync
C31_Witness ==
  /\ pc[1] = "a_lock"
  /\ runs[1] = RetryCycles - 1
  /\ lastSig = NoSig
  /\ att[1].mode = "charge_grid_batfirst"
  /\ att[1].w = 2000

\* C32: when the read-back of the discharge-rate write of a load_first
\* apply has failed, the apply writes the value read before that write
\* back (the undo write) and the rollback then writes the backed-up value,
\* the same value, again. No write to the register after the rejected
\* target carries the target; each of these writes that the device accepts
\* leaves the register at its pre-action value, and after the undo write
\* the register changes to no other value, so that it holds the pre-action
\* value at the end of the attempt if the device accepted them
C32_UndoThenRestore ==
  /\ [](\A t \in Tasks :
          \A u \in 1..Len(wlog[t]) :
             wlog[t][u].ph = "undo"
               => /\ wlog[t][u].reg = _HR_DISCHARGE_POWER_RATE
                  /\ u > 1
                  /\ wlog[t][u - 1].ph = "apply"
                  /\ wlog[t][u - 1].reg = _HR_DISCHARGE_POWER_RATE
                  /\ wlog[t][u].val # wlog[t][u - 1].val
                  /\ att[t].backup[_HR_DISCHARGE_POWER_RATE] # -1
                       => wlog[t][u].val = att[t].backup[_HR_DISCHARGE_POWER_RATE]
                  /\ \A m \in (u + 1)..Len(wlog[t]) :
                        wlog[t][m].reg = _HR_DISCHARGE_POWER_RATE
                          => /\ wlog[t][m].ph = "rollback"
                             /\ wlog[t][m].val = wlog[t][u].val
                  /\ (/\ pc[t] = "a_exit"
                      /\ att[t].backup[_HR_DISCHARGE_POWER_RATE] # -1)
                       => /\ att[t].rolled
                          /\ \E m \in (u + 1)..Len(wlog[t]) :
                                wlog[t][m].reg = _HR_DISCHARGE_POWER_RATE)
  /\ [][\A t \in Tasks :
          /\ (/\ Len(wlog'[t]) = Len(wlog[t]) + 1
              /\ wlog'[t][Len(wlog'[t])].reg = _HR_DISCHARGE_POWER_RATE
              /\ wlog'[t][Len(wlog'[t])].ph \in {"undo", "rollback"}
              /\ faults' = faults)
               => hr'[_HR_DISCHARGE_POWER_RATE] = wlog'[t][Len(wlog'[t])].val
          /\ \A u \in 1..Len(wlog[t]) :
                (/\ wlog[t][u].ph = "undo"
                 /\ hr'[_HR_DISCHARGE_POWER_RATE] # hr[_HR_DISCHARGE_POWER_RATE])
                  => hr'[_HR_DISCHARGE_POWER_RATE] = wlog[t][u].val]_vars

\* an attempt ends after a failed read-back of the discharge rate whose
\* only failure was the write of the target: the undo write and the restore
\* were accepted and the register holds the backed-up value
C32_Witness ==
  \E t \in Tasks :
     /\ pc[t] = "a_exit"
     /\ att[t].exc = "readback_failed"
     /\ faults = MaxFaultsApply - 1
     /\ \E u \in 1..Len(wlog[t]) : wlog[t][u].ph = "undo"
     /\ wlog[t][Len(wlog[t])].ph = "rollback"
     /\ wlog[t][Len(wlog[t])].reg = _HR_DISCHARGE_POWER_RATE
     /\ hr[_HR_DISCHARGE_POWER_RATE] = att[t].backup[_HR_DISCHARGE_POWER_RATE]
     /\ hr[_HR_DISCHARGE_POWER_RATE] # DischargePct(t)

====
